---- MODULE Spec2Model ----
(***************************************************************************)
(* VioSClient (devices/src/virtio/snd/vios_backend/shm_vios.rs): the       *)
(* shared-memory + seqpacket client of the VioS audio server.              *)
(*                                                                         *)
(* Modelled: the two IoBufferQueues and their allocator, the two           *)
(* subscriber maps (completion registries), the mpsc channels that carry   *)
(* BufferReleaseMsg, the data sockets in both directions, the recv thread  *)
(* (spawn_recv_thread) with its wait/dispatch loop, start_bg_thread and    *)
(* stop_bg_thread with their lock structure, and the audio server as the   *)
(* environment.                                                            *)
(***************************************************************************)
EXTENDS Integers, Sequences, FiniteSets, TLC

\* ---------------------------------------------------------------- bounds
\* capacity of each shared memory area (IoBufferQueue.size), in bytes
QSize == 2
\* transfers that get past allocate_buffer in one behaviour
MaxXfers == 2
\* recv threads spawned in one behaviour
MaxSpawns == 2
\* status messages the server sends that answer no transfer
MaxSpurious == 1
\* event messages the server sends
MaxEvents == 2

\* ------------------------------------------------------- program constants
\* A u32 status is kept exactly, as its two 16-bit halves <<high, low>>
\* (the value is high * 2^16 + low), since 2^32 - 1 exceeds the checker's integers.
Half == 65536
U32(high, low) == <<high, low>>
\* u32::MAX
U32Max == U32(Half - 1, Half - 1)
\* v - 1 on a u32 (wrapping)
U32Dec(v) == IF v[2] > 0 THEN U32(v[1], v[2] - 1)
             ELSE U32((v[1] + Half - 1) % Half, Half - 1)
\* constants.rs is not part of the sources at hand: values follow the
\* protocol description (0 = success; the two directions are distinct)
VIRTIO_SND_S_OK == U32(0, 0)
VIRTIO_SND_D_OUTPUT == 0
VIRTIO_SND_D_INPUT == 1

\* ------------------------------------------------------------ value sets
Callers == {"c1", "c2"}
NoOne == "nobody"
Dirs == {"tx", "rx"}
Offsets == 0..QSize
Xids == 1..MaxXfers
Tids == 1..MaxSpawns
\* the cached stream table (VioSClient.streams): stream 0 plays, stream 1 captures
streams == <<VIRTIO_SND_D_OUTPUT, VIRTIO_SND_D_INPUT>>
StreamIds == 0..Len(streams)
Sizes == 0..(QSize + 1)
\* status codes the server puts in IoStatusMsg.status
Statuses == {VIRTIO_SND_S_OK, U32Dec(U32Max), U32Max}
Tokens == {"TxBufferMsg", "RxBufferMsg", "EventMsg", "Notification"}
EventIds == 1..MaxEvents

VARIABLES
    q,            \* [Dirs -> [next]]: IoBufferQueue.next of self.tx / self.rx
    qlock,        \* [Dirs -> holder]: the Mutex around self.tx / self.rx
    subs,         \* [Dirs -> [Offsets -> 0 | xid]]: tx_subscribers / rx_subscribers
    chan,         \* [Xids -> [buf, tx, rx]]: the mpsc channel of each transfer
    sock,         \* [Dirs -> Seq(IoTransferMsg)]: data socket, client to server
    statusq,      \* [Dirs -> Seq(IoStatusMsg)]: data socket, server to client
    running,      \* recv_thread_state.running
    recv_event,   \* counter of the recv_event eventfd
    recv_thread,  \* self.recv_thread: 0 (None) or the id of the spawned thread
    tlock,        \* holder of the Mutex around self.recv_thread
    thr,          \* [Tids -> [pc, pending, res]]: the recv threads
    cs,           \* [Callers -> record]: each facade thread's call in progress
    nextXid,      \* next transfer id (history)
    everReg,      \* [Dirs -> SUBSET Xids]: transfers whose sender was inserted (history)
    everSent,     \* [Dirs -> SUBSET Xids]: transfers whose message was sent (history)
    clash,        \* transfers that shared an offset with another outstanding one (history)
    bystanders,   \* transfers registered while a status with no entry was handled (history)
    nspurious,    \* unsolicited status messages sent so far
    clock,        \* holder of the Mutex around self.control_socket
    creq,         \* control socket, client to server: the requests written
    crep,         \* control socket, server to client: the status replies
    evsock,       \* event socket, server to client: the event messages
    rcvd,         \* the event recv_event returned to the recv thread (0: none)
    events,       \* self.events: the VecDeque of events
    event_notifier,   \* counter of the event_notifier eventfd
    reporting_events, \* recv_thread_state.reporting_events
    evlog,        \* events queued, popped and discarded so far (history)
    nevents,      \* event messages the server has sent so far
    dropped,      \* the client is being destroyed, or has been
    logged,       \* what Drop passed to error!() (history)
    conn,         \* VioSClient::try_new: what the handshake received, and its result
    slock         \* [Dirs -> holder]: the Mutex around tx_subscribers / rx_subscribers

ctlVars == <<clock, creq, crep>>
evVars == <<evsock, rcvd, events, event_notifier, reporting_events, evlog, nevents>>
endVars == <<dropped, logged>>
extVars == <<ctlVars, evVars, endVars, conn, slock>>

vars == <<q, qlock, subs, chan, sock, statusq, running, recv_event, recv_thread,
          tlock, thr, cs, nextXid, everReg, everSent, clash, bystanders, nspurious,
          clock, creq, crep, evsock, rcvd, events, event_notifier, reporting_events,
          evlog, nevents, dropped, logged, conn, slock>>

\* ------------------------------------------------------------- records
\* BufferReleaseMsg.  History fields: xid names the transfer the server
\* answered, raw is the status as the server sent it
BufferReleaseMsg(status, latency, consumed_len, xid, raw) ==
    [status |-> status, latency |-> latency, consumed_len |-> consumed_len,
     xid |-> xid, raw |-> raw]

NoMsg == BufferReleaseMsg(U32(0, 0), 0, 0, 0, U32(0, 0))

\* virtio_snd_hdr as a status reply.  History field: for names the facade
\* thread whose request the server answered
CmdStatus(code, for) == [code |-> code, for |-> for]

NoReply == CmdStatus(U32(0, 0), NoOne)

\* a facade thread outside any call.  History fields: pre is the cursor that
\* allocate_buffer found, filled / viewed record that the callback ran, path
\* names the return statement taken, epoch counts the threads spawned before
\* the call looked at the handle
Idle == [pc |-> "idle", op |-> "none", stream_id |-> 0, size |-> 0, offset |-> 0,
         pre |-> 0, xid |-> 0, handle |-> 0, filled |-> FALSE, viewed |-> FALSE,
         got |-> NoMsg, res |-> "none", val |-> 0, path |-> "none", epoch |-> 0,
         voff |-> 0, vlen |-> 0, reply |-> NoReply, jack_id |-> 0]

\* ThreadFlags when the thread holds no copy of it
NoFlags == [running |-> FALSE, reporting_events |-> FALSE]

\* state_cpy is the copy of the flags the loop head took, reads counts the
\* times the thread locked and copied the flags in its latest iteration
NoThread == [pc |-> "none", pending |-> {}, res |-> "none", state_cpy |-> NoFlags, reads |-> 0]

\* nothing queued, popped or discarded yet
NoEvents == [pushed |-> <<>>, popped |-> <<>>, discarded |-> {}]

\* std::mem::size_of::<VioSConfig>(): four u32 fields
VioSConfigSize == 16
\* descriptors that come with the config
NUM_FDS == 5
VIOS_VERSION == 1

DirOf(op) == IF op = "inject" THEN "tx" ELSE "rx"

\* ------------------------------------------------------------- try_new
\* payload sizes recv_with_fds can return into the config buffer
RecvSizes == 0..VioSConfigSize
\* descriptor counts recv_with_fds can return.  recv_with_fds belongs to the
\* base crate, which is not part of the sources at hand: following the
\* protocol description, fewer or more than NUM_FDS descriptors can arrive
FdCounts == 0..(NUM_FDS + 1)
\* values of config.version
Versions == {0, VIOS_VERSION, VIOS_VERSION + 1}
\* values of config.jacks, config.streams, config.chmaps
Counts == {0, 1}

\* the roles try_new gives to the descriptors, in the order of its pop() calls
PopOrder == <<"rx_shm_file", "tx_shm_file", "rx_socket", "tx_socket", "event_socket">>
Roles == {PopOrder[i] : i \in 1..Len(PopOrder)}
\* the query commands of request_and_cache_info, in the order it sends them
QueryOrder == <<"VIRTIO_SND_R_JACK_INFO", "VIRTIO_SND_R_PCM_INFO", "VIRTIO_SND_R_CHMAP_INFO">>

\* safe_fds: the descriptors received, named by their position of arrival
ArrivedFds(fd_count) == [i \in 1..fd_count |-> i]

\* try_new after recv_with_fds has returned (recv_size, fd_count) and the
\* config.  taken counts the descriptors popped so far, role is the
\* descriptor each local got (0: none yet), sent the query commands written
\* to the control socket, stage the query request_and_cache_info is at
Handshake(recv_size, fd_count, version, counts) ==
    [pc |-> "size", recv_size |-> recv_size, fd_count |-> fd_count,
     version |-> version, counts |-> counts, safe_fds |-> ArrivedFds(fd_count),
     taken |-> 0, role |-> [r \in Roles |-> 0], sent |-> <<>>, stage |-> 1,
     res |-> "none", val |-> 0]

ConnFail(res, val) == [conn EXCEPT !.pc = "failed", !.res = res, !.val = val]

\* a size test that only refuses an empty payload
config_size_ok_nonempty(recv_size) == recv_size > 0

\* recv_size != size_of::<VioSConfig>(), negated
config_size_ok(recv_size) == recv_size = VioSConfigSize

\* try_new: the test of the payload size
ConnCheckSize ==
    /\ conn.pc = "size"
    /\ conn' = IF config_size_ok(conn.recv_size)
               THEN [conn EXCEPT !.pc = "version"]
               ELSE ConnFail("UnexpectedConfigSize", conn.recv_size)
    /\ UNCHANGED <<q, qlock, subs, chan, sock, statusq, running, recv_event,
                   recv_thread, tlock, thr, cs, nextXid, everReg, everSent, clash,
                   bystanders, nspurious, ctlVars, evVars, endVars, slock>>

\* a version test that accepts every version up to the client's
version_ok_upto(version) == version <= VIOS_VERSION

\* config.version != VIOS_VERSION, negated
version_ok(version) == version = VIOS_VERSION

\* try_new: the test of config.version
ConnCheckVersion ==
    /\ conn.pc = "version"
    /\ conn' = IF version_ok(conn.version)
               THEN [conn EXCEPT !.pc = "pop"]
               ELSE ConnFail("VersionMismatch", conn.version)
    /\ UNCHANGED <<q, qlock, subs, chan, sock, statusq, running, recv_event,
                   recv_thread, tlock, thr, cs, nextXid, everReg, everSent, clash,
                   bystanders, nspurious, ctlVars, evVars, endVars, slock>>

\* a take from the front of the vector
vec_pop_front(v) == [fd |-> v[1], rest |-> Tail(v)]

\* Vec::pop on a vector that is not empty: the last element leaves
vec_pop(v) == [fd |-> v[Len(v)], rest |-> SubSeq(v, 1, Len(v) - 1)]

\* try_new: one of the five pop() calls on the received descriptors
ConnPop ==
    /\ conn.pc = "pop"
    /\ conn.taken < NUM_FDS
    /\ conn' = IF conn.safe_fds = <<>>
               THEN ConnFail("UnexpectedNumberOfFileDescriptors", conn.fd_count)
               ELSE [conn EXCEPT !.taken = @ + 1,
                                 !.safe_fds = vec_pop(conn.safe_fds).rest,
                                 !.role[PopOrder[conn.taken + 1]] =
                                     vec_pop(conn.safe_fds).fd]
    /\ UNCHANGED <<q, qlock, subs, chan, sock, statusq, running, recv_event,
                   recv_thread, tlock, thr, cs, nextXid, everReg, everSent, clash,
                   bystanders, nspurious, ctlVars, evVars, endVars, slock>>

\* a test after the pops that lets descriptors left over pass
leftover_ok_any(safe_fds) == TRUE

\* !safe_fds.is_empty(), negated
leftover_ok(safe_fds) == safe_fds = <<>>

\* try_new: after the pops, safe_fds must be empty; then the client is built
\* and request_and_cache_info starts
ConnBuild ==
    /\ conn.pc = "pop"
    /\ conn.taken = NUM_FDS
    /\ conn' = IF leftover_ok(conn.safe_fds)
               THEN [conn EXCEPT !.pc = "query"]
               ELSE ConnFail("UnexpectedNumberOfFileDescriptors", conn.fd_count)
    /\ UNCHANGED <<q, qlock, subs, chan, sock, statusq, running, recv_event,
                   recv_thread, tlock, thr, cs, nextXid, everReg, everSent, clash,
                   bystanders, nspurious, ctlVars, evVars, endVars, slock>>

\* request_and_cache_{jacks,streams,chmaps}_info: nothing is asked for a
\* count of 0; otherwise the query is sent, its status read (send_cmd), then
\* the table, whose length must be count * info_size.  code_ok and len_ok are
\* what the server answered
ConnQuery ==
    /\ conn.pc = "query"
    /\ conn.stage <= Len(QueryOrder)
    /\ IF conn.counts[conn.stage] = 0
       THEN conn' = [conn EXCEPT !.stage = @ + 1]
       ELSE \E code_ok, len_ok \in BOOLEAN :
              LET asked == [conn EXCEPT !.sent = Append(@, QueryOrder[conn.stage])]
              IN  conn' = IF ~code_ok
                          THEN [asked EXCEPT !.pc = "failed", !.res = "CommandFailed"]
                          ELSE IF ~len_ok
                          THEN [asked EXCEPT !.pc = "failed",
                                             !.res = "UnexpectedMessageSize"]
                          ELSE [asked EXCEPT !.stage = @ + 1]
    /\ UNCHANGED <<q, qlock, subs, chan, sock, statusq, running, recv_event,
                   recv_thread, tlock, thr, cs, nextXid, everReg, everSent, clash,
                   bystanders, nspurious, ctlVars, evVars, endVars, slock>>

\* try_new: Ok(client)
ConnFinish ==
    /\ conn.pc = "query"
    /\ conn.stage > Len(QueryOrder)
    /\ conn' = [conn EXCEPT !.pc = "done", !.res = "Ok"]
    /\ UNCHANGED <<q, qlock, subs, chan, sock, statusq, running, recv_event,
                   recv_thread, tlock, thr, cs, nextXid, everReg, everSent, clash,
                   bystanders, nspurious, ctlVars, evVars, endVars, slock>>

\* a client whose try_new has returned Ok
Connected ==
    [pc |-> "done", recv_size |-> VioSConfigSize, fd_count |-> NUM_FDS,
     version |-> VIOS_VERSION, counts |-> [i \in 1..Len(QueryOrder) |-> 1],
     safe_fds |-> <<>>, taken |-> NUM_FDS,
     role |-> [r \in Roles |-> NUM_FDS + 1 - (CHOOSE i \in 1..NUM_FDS : PopOrder[i] = r)],
     sent |-> QueryOrder, stage |-> Len(QueryOrder) + 1, res |-> "Ok", val |-> 0]

\* ------------------------------------------------------ IoBufferQueue
\* allocate_buffer that never restarts at the beginning of the area
allocate_buffer_no_wrap(next, size) ==
    IF size > QSize
    THEN [ok |-> FALSE, offset |-> 0, next |-> next]
    ELSE [ok |-> TRUE, offset |-> next, next |-> next + size]

\* allocate_buffer that also restarts when the buffer fits the tail exactly
allocate_buffer_early_wrap(next, size) ==
    IF size > QSize
    THEN [ok |-> FALSE, offset |-> 0, next |-> next]
    ELSE LET offset == IF size >= QSize - next THEN 0 ELSE next
         IN [ok |-> TRUE, offset |-> offset, next |-> offset + size]

\* allocate_buffer without the look at the capacity
allocate_buffer_no_limit(next, size) ==
    LET offset == IF size > QSize - next THEN 0 ELSE next
    IN [ok |-> TRUE, offset |-> offset, next |-> offset + size]

\* allocate_buffer: whether it succeeds, the offset it returns and the cursor
\* it leaves
allocate_buffer(next, size) ==
    IF size > QSize
    THEN [ok |-> FALSE, offset |-> 0, next |-> next]
    ELSE LET offset == IF size > QSize - next THEN 0 ELSE next
         IN [ok |-> TRUE, offset |-> offset, next |-> offset + size]

\* MemoryMapping::get_slice, which belongs to the base crate and is not part
\* of the sources at hand: following the protocol description, it succeeds
\* for the ranges that lie inside the mapped area and fails for the others
get_slice(offset, len) == offset + len <= QSize

\* buffer_at: self.mmap.get_slice(offset, len), a failure becoming
\* VolatileMemoryError
buffer_at(offset, len) == get_slice(offset, len)

\* IoTransferMsg::new: offset and length are narrowed to 32 bits, which loses
\* nothing for the capacities modelled; xid (history) names the transfer
IoTransferMsg(stream_id, buffer_offset, buffer_len, xid) ==
    [stream_id |-> stream_id, buffer_offset |-> buffer_offset,
     buffer_len |-> buffer_len, xid |-> xid]

\* ------------------------------------------------- mpsc channel
NoChan == [buf |-> <<>>, tx |-> FALSE, rx |-> FALSE]
\* dropping the Sender of transfer k (k = 0: nothing to drop)
DropSender(ch, k) == IF k = 0 THEN ch ELSE [ch EXCEPT ![k].tx = FALSE]

\* ------------------------------------------- inject / request_audio_data
\* the two direction checks with their constants exchanged
WantDirSwapped(op) == IF op = "inject" THEN VIRTIO_SND_D_INPUT ELSE VIRTIO_SND_D_OUTPUT

\* the direction a transfer call requires of its stream
WantDir(op) == IF op = "inject" THEN VIRTIO_SND_D_OUTPUT ELSE VIRTIO_SND_D_INPUT

\* the block with the send placed before the insert
XferNextSendFirst(pc) ==
    CASE pc = "alloc" -> "send"
      [] pc = "send" -> "register"
      [] pc = "register" -> "unlock"

\* statement order inside the queue-lock block: allocate (and fill), insert the
\* sender into the subscribers map, send the message, leave the block
XferNext(pc) ==
    CASE pc = "alloc" -> "register"
      [] pc = "register" -> "send"
      [] pc = "send" -> "unlock"

Finish(c, res, val) == [cs[c] EXCEPT !.pc = "done", !.res = res, !.val = val]

\* a transfer call that starts the recv thread when there is none
CallXferStarting(c, op, sid, size) ==
    /\ cs[c].pc = "idle"
    /\ nextXid + Cardinality({b \in Callers : cs[b].pc = "alloc"}) <= MaxXfers
    /\ LET call == [Idle EXCEPT !.op = op, !.stream_id = sid]
       IN cs' = [cs EXCEPT ![c] =
            IF sid >= Len(streams)
            THEN [call EXCEPT !.pc = "done", !.res = "InvalidStreamId", !.val = sid]
            ELSE IF streams[sid + 1] # WantDir(op)
            THEN [call EXCEPT !.pc = "done", !.res = "WrongDirection",
                              !.val = WantDir(op)]
            ELSE [call EXCEPT !.pc = "alloc", !.size = size]]
    /\ IF recv_thread = 0 /\ tlock = NoOne /\ \E t \in Tids : thr[t].pc = "none"
       THEN LET t == CHOOSE t \in Tids : thr[t].pc = "none"
            IN /\ recv_thread' = t
               /\ thr' = [thr EXCEPT ![t] = [NoThread EXCEPT !.pc = "top", !.res = "new"]]
       ELSE UNCHANGED <<recv_thread, thr>>
    /\ UNCHANGED <<q, qlock, subs, chan, sock, statusq, running, recv_event,
                   tlock, nextXid, everReg, everSent, clash, bystanders, nspurious, extVars>>

\* entry of inject_audio_data / request_audio_data: stream lookup and
\* direction check against the cached stream table (size is first read by
\* allocate_buffer, so a call that fails here leaves no trace of it)
CallXfer(c, op, sid, size) ==
    /\ cs[c].pc = "idle"
    /\ nextXid + Cardinality({b \in Callers : cs[b].pc = "alloc"}) <= MaxXfers
    /\ LET call == [Idle EXCEPT !.op = op, !.stream_id = sid]
       IN cs' = [cs EXCEPT ![c] =
            IF sid >= Len(streams)
            THEN [call EXCEPT !.pc = "done", !.res = "InvalidStreamId", !.val = sid]
            ELSE IF streams[sid + 1] # WantDir(op)
            THEN [call EXCEPT !.pc = "done", !.res = "WrongDirection",
                              !.val = WantDir(op)]
            ELSE [call EXCEPT !.pc = "alloc", !.size = size]]
    /\ UNCHANGED <<q, qlock, subs, chan, sock, statusq, running, recv_event,
                   recv_thread, tlock, thr, nextXid, everReg, everSent, clash, bystanders, nspurious, extVars>>

\* allocate_buffer on a queue that is not behind a Mutex
AllocNoLock(c) ==
    /\ cs[c].pc = "alloc"
    /\ LET d == DirOf(cs[c].op)
           a == allocate_buffer(q[d].next, cs[c].size)
       IN /\ IF ~a.ok
             THEN /\ cs' = [cs EXCEPT ![c] =
                         [Finish(c, "OutOfSpace", 0) EXCEPT !.pre = q[d].next]]
                  /\ UNCHANGED <<q, qlock, nextXid>>
             ELSE /\ q' = [q EXCEPT ![d].next = a.next]
                  /\ nextXid' = nextXid + 1
                  /\ IF cs[c].op = "inject" /\ ~buffer_at(a.offset, cs[c].size)
                     THEN /\ cs' = [cs EXCEPT ![c] =
                                 [Finish(c, "VolatileMemoryError", 0) EXCEPT
                                     !.offset = a.offset, !.pre = q[d].next]]
                          /\ UNCHANGED qlock
                     ELSE /\ cs' = [cs EXCEPT ![c] =
                                 [cs[c] EXCEPT !.pc = XferNext("alloc"),
                                     !.offset = a.offset, !.pre = q[d].next,
                                     !.xid = nextXid,
                                     !.filled = (cs[c].op = "inject")]]
                          /\ qlock' = [qlock EXCEPT ![d] = c]
    /\ UNCHANGED <<subs, chan, sock, statusq, running, recv_event, recv_thread,
                   tlock, thr, everReg, everSent, clash, bystanders, nspurious, extVars>>

\* the transfer of c has its range and its caller has not left await_status
Outstanding(c) ==
    /\ cs[c].op \in {"inject", "request"}
    /\ cs[c].pc \in {"register", "send", "unlock", "await"}

\* the byte ranges [o1, o1 + s1) and [o2, o2 + s2) have a byte in common
Overlap(o1, s1, o2, s2) == o1 < o2 + s2 /\ o2 < o1 + s1 /\ s1 > 0 /\ s2 > 0

\* a queue that refuses a range while an outstanding transfer overlaps it
AllocTracking(c) ==
    /\ cs[c].pc = "alloc"
    /\ LET d == DirOf(cs[c].op)
           free == allocate_buffer(q[d].next, cs[c].size)
           a == IF \E b \in Callers \ {c} :
                      /\ Outstanding(b) /\ DirOf(cs[b].op) = d
                      /\ Overlap(free.offset, cs[c].size, cs[b].offset, cs[b].size)
                THEN [ok |-> FALSE, offset |-> 0, next |-> q[d].next]
                ELSE free
       IN /\ qlock[d] = NoOne
          /\ IF ~a.ok
             THEN /\ cs' = [cs EXCEPT ![c] =
                         [Finish(c, "OutOfSpace", 0) EXCEPT !.pre = q[d].next]]
                  /\ UNCHANGED <<q, qlock, nextXid>>
             ELSE /\ q' = [q EXCEPT ![d].next = a.next]
                  /\ nextXid' = nextXid + 1
                  /\ IF cs[c].op = "inject" /\ ~buffer_at(a.offset, cs[c].size)
                     THEN /\ cs' = [cs EXCEPT ![c] =
                                 [Finish(c, "VolatileMemoryError", 0) EXCEPT
                                     !.offset = a.offset, !.pre = q[d].next]]
                          /\ UNCHANGED qlock
                     ELSE /\ cs' = [cs EXCEPT ![c] =
                                 [cs[c] EXCEPT !.pc = XferNext("alloc"),
                                     !.offset = a.offset, !.pre = q[d].next,
                                     !.xid = nextXid,
                                     !.filled = (cs[c].op = "inject")]]
                          /\ qlock' = [qlock EXCEPT ![d] = c]
    /\ UNCHANGED <<subs, chan, sock, statusq, running, recv_event, recv_thread,
                   tlock, thr, everReg, everSent, clash, bystanders, nspurious, extVars>>

\* self.tx.lock() / self.rx.lock(), allocate_buffer, and for a write
\* buffer_at and the fill callback
Alloc(c) ==
    /\ cs[c].pc = "alloc"
    /\ LET d == DirOf(cs[c].op)
           a == allocate_buffer(q[d].next, cs[c].size)
       IN /\ qlock[d] = NoOne
          /\ IF ~a.ok
             THEN /\ cs' = [cs EXCEPT ![c] =
                         [Finish(c, "OutOfSpace", 0) EXCEPT !.pre = q[d].next]]
                  /\ UNCHANGED <<q, qlock, nextXid>>
             ELSE /\ q' = [q EXCEPT ![d].next = a.next]
                  /\ nextXid' = nextXid + 1
                  /\ IF cs[c].op = "inject" /\ ~buffer_at(a.offset, cs[c].size)
                     THEN /\ cs' = [cs EXCEPT ![c] =
                                 [Finish(c, "VolatileMemoryError", 0) EXCEPT
                                     !.offset = a.offset, !.pre = q[d].next]]
                          /\ UNCHANGED qlock
                     ELSE /\ cs' = [cs EXCEPT ![c] =
                                 [cs[c] EXCEPT !.pc = XferNext("alloc"),
                                     !.offset = a.offset, !.pre = q[d].next,
                                     !.xid = nextXid,
                                     !.filled = (cs[c].op = "inject")]]
                          /\ qlock' = [qlock EXCEPT ![d] = c]
    /\ UNCHANGED <<subs, chan, sock, statusq, running, recv_event, recv_thread,
                   tlock, thr, everReg, everSent, clash, bystanders, nspurious, extVars>>

\* an insert that keeps the sender already in the map and drops the new one
RegisterKeepFirst(c) ==
    /\ cs[c].pc = "register"
    /\ LET d == DirOf(cs[c].op)
           k == cs[c].xid
           old == subs[d][cs[c].offset]
       IN /\ chan' = [chan EXCEPT ![k] = [buf |-> <<>>, tx |-> old = 0, rx |-> TRUE]]
          /\ subs' = [subs EXCEPT ![d][cs[c].offset] = IF old = 0 THEN k ELSE old]
          /\ everReg' = [everReg EXCEPT ![d] = @ \cup {k}]
          /\ clash' = IF old # 0 /\ chan[old].rx THEN clash \cup {old, k} ELSE clash
          /\ cs' = [cs EXCEPT ![c].pc = XferNext("register")]
    /\ UNCHANGED <<q, qlock, sock, statusq, running, recv_event, recv_thread, tlock,
                   thr, nextXid, everSent, bystanders, nspurious, extVars>>

\* channel() and subscribers.lock().insert(offset, sender); the sender that
\* insert displaces is dropped
Register(c) ==
    /\ cs[c].pc = "register"
    /\ LET d == DirOf(cs[c].op)
           k == cs[c].xid
           old == subs[d][cs[c].offset]
       IN /\ chan' = [DropSender(chan, old) EXCEPT
                         ![k] = [buf |-> <<>>, tx |-> TRUE, rx |-> TRUE]]
          /\ subs' = [subs EXCEPT ![d][cs[c].offset] = k]
          /\ everReg' = [everReg EXCEPT ![d] = @ \cup {k}]
          /\ clash' = IF old # 0 /\ chan[old].rx THEN clash \cup {old, k} ELSE clash
          /\ cs' = [cs EXCEPT ![c].pc = XferNext("register")]
    /\ UNCHANGED <<q, qlock, sock, statusq, running, recv_event, recv_thread, tlock,
                   thr, nextXid, everSent, bystanders, nspurious, extVars>>

\* seq_socket_send on the queue's data socket succeeds (an interrupted send
\* is retried inside it and changes nothing)
Send(c) ==
    /\ cs[c].pc = "send"
    /\ LET d == DirOf(cs[c].op)
           k == cs[c].xid
       IN /\ sock' = [sock EXCEPT ![d] = Append(@,
                  IoTransferMsg(cs[c].stream_id, cs[c].offset, cs[c].size, k))]
          /\ everSent' = [everSent EXCEPT ![d] = @ \cup {k}]
          /\ cs' = [cs EXCEPT ![c].pc = XferNext("send")]
    /\ UNCHANGED <<q, qlock, subs, chan, statusq, running, recv_event, recv_thread,
                   tlock, thr, nextXid, everReg, clash, bystanders, nspurious, extVars>>

\* a failed send that takes the sender out of the map again and puts the
\* cursor back where allocate_buffer found it
SendFailRollback(c) ==
    /\ cs[c].pc = "send"
    /\ LET d == DirOf(cs[c].op)
           k == cs[c].xid
       IN /\ cs' = [cs EXCEPT ![c] = Finish(c, "ServerIOError", 0)]
          /\ qlock' = [qlock EXCEPT ![d] = NoOne]
          /\ chan' = [chan EXCEPT ![k].rx = FALSE, ![k].tx = FALSE]
          /\ subs' = [subs EXCEPT ![d][cs[c].offset] = 0]
          /\ q' = [q EXCEPT ![d].next = cs[c].pre]
    /\ UNCHANGED <<sock, statusq, running, recv_event, recv_thread, tlock,
                   thr, nextXid, everReg, everSent, clash, bystanders, nspurious, extVars>>

\* seq_socket_send fails with an error other than Interrupted: the call
\* returns it, which drops the queue lock guard and the Receiver
SendFail(c) ==
    /\ cs[c].pc = "send"
    /\ LET d == DirOf(cs[c].op)
           k == cs[c].xid
       IN /\ cs' = [cs EXCEPT ![c] = Finish(c, "ServerIOError", 0)]
          /\ qlock' = [qlock EXCEPT ![d] = NoOne]
          /\ chan' = [chan EXCEPT ![k].rx = FALSE]
    /\ UNCHANGED <<q, subs, sock, statusq, running, recv_event, recv_thread, tlock,
                   thr, nextXid, everReg, everSent, clash, bystanders, nspurious, extVars>>

\* a block that ends after await_status: the queue lock guard lives on
UnlockLate(c) ==
    /\ cs[c].pc = "unlock"
    /\ cs' = [cs EXCEPT ![c].pc = "await"]
    /\ UNCHANGED <<q, qlock, subs, chan, sock, statusq, running, recv_event, recv_thread,
                   tlock, thr, nextXid, everReg, everSent, clash, bystanders, nspurious, extVars>>

\* end of the block: the queue lock guard is dropped
Unlock(c) ==
    /\ cs[c].pc = "unlock"
    /\ qlock' = [qlock EXCEPT ![DirOf(cs[c].op)] = NoOne]
    /\ cs' = [cs EXCEPT ![c].pc = "await"]
    /\ UNCHANGED <<q, subs, chan, sock, statusq, running, recv_event, recv_thread,
                   tlock, thr, nextXid, everReg, everSent, clash, bystanders, nspurious, extVars>>

\* await_status: promise.recv() returns the buffered message, fails once the
\* sender is gone, and blocks otherwise
Await(c) ==
    /\ cs[c].pc = "await"
    /\ LET k == cs[c].xid
           ch == chan[k]
       IN /\ (Len(ch.buf) > 0 \/ ~ch.tx)
          /\ chan' = [chan EXCEPT ![k] = [buf |-> <<>>, tx |-> ch.tx, rx |-> FALSE]]
          /\ IF Len(ch.buf) > 0
             THEN LET m == Head(ch.buf)
                  IN cs' = [cs EXCEPT ![c] =
                       IF m.status # VIRTIO_SND_S_OK
                       THEN [Finish(c, "IOBufferError", m.status) EXCEPT !.got = m]
                       ELSE IF cs[c].op = "inject"
                       THEN [Finish(c, "Ok", m.latency) EXCEPT !.got = m]
                       ELSE [cs[c] EXCEPT !.pc = "view", !.got = m]]
             ELSE cs' = [cs EXCEPT ![c] = Finish(c, "BufferStatusSenderLost", 0)]
    /\ UNCHANGED <<q, qlock, subs, sock, statusq, running, recv_event, recv_thread,
                   tlock, thr, nextXid, everReg, everSent, clash, bystanders, nspurious, extVars>>

\* the view sized by the length that was asked for
ViewLenRequested(c) == cs[c].size

\* recv_size: the length await_status returned
ViewLen(c) == cs[c].got.consumed_len

\* request_audio_data that runs the read callback without buffer_at's check
ViewUnchecked(c) ==
    /\ cs[c].pc = "view"
    /\ qlock["rx"] = NoOne
    /\ cs' = [cs EXCEPT ![c] =
            [Finish(c, "Ok", cs[c].got.latency) EXCEPT
                !.viewed = TRUE, !.voff = cs[c].offset, !.vlen = ViewLen(c)]]
    /\ UNCHANGED <<q, qlock, subs, chan, sock, statusq, running, recv_event,
                   recv_thread, tlock, thr, nextXid, everReg, everSent, clash, bystanders, nspurious, extVars>>

\* request_audio_data after the completion: self.rx.lock(), buffer_at over
\* the received length, and the read callback (voff, vlen: the slice the
\* callback was given)
View(c) ==
    /\ cs[c].pc = "view"
    /\ qlock["rx"] = NoOne
    /\ cs' = [cs EXCEPT ![c] =
            IF buffer_at(cs[c].offset, ViewLen(c))
            THEN [Finish(c, "Ok", cs[c].got.latency) EXCEPT
                     !.viewed = TRUE, !.voff = cs[c].offset, !.vlen = ViewLen(c)]
            ELSE Finish(c, "VolatileMemoryError", 0)]
    /\ UNCHANGED <<q, qlock, subs, chan, sock, statusq, running, recv_event,
                   recv_thread, tlock, thr, nextXid, everReg, everSent, clash, bystanders, nspurious, extVars>>

\* the call has returned; the facade thread is free for its next call
Return(c) ==
    /\ cs[c].pc = "done"
    /\ cs' = [cs EXCEPT ![c] = Idle]
    /\ UNCHANGED <<q, qlock, subs, chan, sock, statusq, running, recv_event,
                   recv_thread, tlock, thr, nextXid, everReg, everSent, clash, bystanders, nspurious, extVars>>

\* ------------------------------------------------------ the recv thread
\* the readiness sources of the WaitContext that have something to read
Ready ==
    {tok \in Tokens :
        \/ tok = "TxBufferMsg" /\ statusq["tx"] # <<>>
        \/ tok = "RxBufferMsg" /\ statusq["rx"] # <<>>
        \/ tok = "EventMsg" /\ evsock # <<>>
        \/ tok = "Notification" /\ recv_event > 0}

ThreadExit(t, res) ==
    [thr EXCEPT ![t] = [pc |-> "exited", pending |-> {}, res |-> res,
                        state_cpy |-> NoFlags, reads |-> 0]]

\* *state.lock(): the flags as they are now
ThreadFlags == [running |-> running, reporting_events |-> reporting_events]

\* the status passed on as received
DeliveredStatusRaw(status) == status

\* the status the waiter is given: u32::MAX is lowered by one
DeliveredStatus(status) == IF status = U32Max THEN U32Dec(status) ELSE status

\* thread body up to the loop: WaitContext::build_with fails
ThrBuildFail(t) ==
    /\ thr[t].pc = "top"
    /\ thr[t].res = "new"
    /\ thr' = ThreadExit(t, "WaitContextCreateError")
    /\ UNCHANGED <<q, qlock, subs, chan, sock, statusq, running, recv_event,
                   recv_thread, tlock, cs, nextXid, everReg, everSent, clash, bystanders, nspurious, extVars>>

\* loop head: copy the flags under the state lock, leave the loop if not running
ThrTop(t) ==
    /\ thr[t].pc = "top"
    /\ thr' = IF ThreadFlags.running
              THEN [thr EXCEPT ![t] = [pc |-> "wait", pending |-> {}, res |-> "none",
                                       state_cpy |-> ThreadFlags, reads |-> 1]]
              ELSE ThreadExit(t, "Ok")
    /\ UNCHANGED <<q, qlock, subs, chan, sock, statusq, running, recv_event,
                   recv_thread, tlock, cs, nextXid, everReg, everSent, clash, bystanders, nspurious, extVars>>

\* wait_ctx.wait() returns the sources that are ready, once there is one
ThrWait(t) ==
    /\ thr[t].pc = "wait"
    /\ Ready # {}
    /\ thr' = [thr EXCEPT ![t].pc = "handle", ![t].pending = Ready, ![t].res = "none"]
    /\ UNCHANGED <<q, qlock, subs, chan, sock, statusq, running, recv_event,
                   recv_thread, tlock, cs, nextXid, everReg, everSent, clash, bystanders, nspurious, extVars>>

\* wait_ctx.wait() fails
ThrWaitFail(t) ==
    /\ thr[t].pc = "wait"
    /\ thr' = ThreadExit(t, "WaitError")
    /\ UNCHANGED <<q, qlock, subs, chan, sock, statusq, running, recv_event,
                   recv_thread, tlock, cs, nextXid, everReg, everSent, clash, bystanders, nspurious, extVars>>

\* after one event of the batch: the next one, or back to the loop head
AfterEvent(t, tok) ==
    LET rest == thr[t].pending \ {tok}
    IN [thr EXCEPT ![t] = [pc |-> IF rest = {} THEN "top" ELSE "handle",
                           pending |-> rest, res |-> "none",
                           state_cpy |-> IF rest = {} THEN NoFlags ELSE thr[t].state_cpy,
                           reads |-> thr[t].reads]]

\* sender.send(msg) followed by the drop of the sender: the message is
\* buffered unless the Receiver is gone (an error that is only logged)
SenderSend(ch, msg) ==
    [buf |-> IF ch.rx THEN Append(ch.buf, msg) ELSE ch.buf, tx |-> FALSE, rx |-> ch.rx]

\* no entry for the offset treated as a failure of the thread
OnUnknownOffsetFatal(t, tok) == ThreadExit(t, "UnexpectedBufferStatus")

\* no entry for the offset: error!() and carry on with the batch
OnUnknownOffset(t, tok) == AfterEvent(t, tok)

\* the transfers that have an entry in the registry of direction d
Registered(d) == {subs[d][o] : o \in Offsets} \ {0}

\* recv_buffer_status_msg that looks the sender up and leaves it in the map
RecvBufferStatusMsgKeep(t, tok, d) ==
    /\ statusq[d] # <<>>
    /\ LET msg == Head(statusq[d])
           k == IF msg.buffer_offset \in Offsets THEN subs[d][msg.buffer_offset] ELSE 0
       IN /\ statusq' = [statusq EXCEPT ![d] = Tail(@)]
          /\ IF ~msg.size_ok
             THEN /\ thr' = ThreadExit(t, "UnexpectedMessageSize")
                  /\ UNCHANGED <<subs, chan, bystanders>>
             ELSE IF k = 0
             THEN /\ thr' = OnUnknownOffset(t, tok)
                  /\ bystanders' = bystanders \cup Registered(d)
                  /\ UNCHANGED <<subs, chan>>
             ELSE /\ thr' = AfterEvent(t, tok)
                  /\ chan' = [chan EXCEPT ![k] =
                                [SenderSend(@,
                                   BufferReleaseMsg(DeliveredStatus(msg.status), msg.latency,
                                                    msg.consumed_len, msg.xid, msg.status))
                                 EXCEPT !.tx = TRUE]]
                  /\ UNCHANGED <<subs, bystanders>>
    /\ UNCHANGED <<recv_event>>

\* recv_buffer_status_msg given the subscriber map of the other direction
RecvBufferStatusMsgCrossed(t, tok, d) ==
    /\ statusq[d] # <<>>
    /\ LET msg == Head(statusq[d])
           e == CHOOSE e \in Dirs : e # d
           k == IF msg.buffer_offset \in Offsets THEN subs[e][msg.buffer_offset] ELSE 0
       IN /\ statusq' = [statusq EXCEPT ![d] = Tail(@)]
          /\ IF ~msg.size_ok
             THEN /\ thr' = ThreadExit(t, "UnexpectedMessageSize")
                  /\ UNCHANGED <<subs, chan, bystanders>>
             ELSE IF k = 0
             THEN /\ thr' = OnUnknownOffset(t, tok)
                  /\ bystanders' = bystanders \cup Registered(e)
                  /\ UNCHANGED <<subs, chan>>
             ELSE /\ thr' = AfterEvent(t, tok)
                  /\ subs' = [subs EXCEPT ![e][msg.buffer_offset] = 0]
                  /\ chan' = [chan EXCEPT ![k] = SenderSend(@,
                                BufferReleaseMsg(DeliveredStatus(msg.status), msg.latency,
                                                 msg.consumed_len, msg.xid, msg.status))]
                  /\ UNCHANGED bystanders
    /\ UNCHANGED <<recv_event>>

\* recv_buffer_status_msg(socket, subscribers) for one ready data socket
RecvBufferStatusMsg(t, tok, d) ==
    /\ statusq[d] # <<>>
    /\ LET msg == Head(statusq[d])
           k == IF msg.buffer_offset \in Offsets THEN subs[d][msg.buffer_offset] ELSE 0
       IN /\ statusq' = [statusq EXCEPT ![d] = Tail(@)]
          /\ IF ~msg.size_ok
             THEN /\ thr' = ThreadExit(t, "UnexpectedMessageSize")
                  /\ UNCHANGED <<subs, chan, bystanders>>
             ELSE IF k = 0
             THEN /\ thr' = OnUnknownOffset(t, tok)
                  /\ bystanders' = bystanders \cup Registered(d)
                  /\ UNCHANGED <<subs, chan>>
             ELSE /\ thr' = AfterEvent(t, tok)
                  /\ subs' = [subs EXCEPT ![d][msg.buffer_offset] = 0]
                  /\ chan' = [chan EXCEPT ![k] = SenderSend(@,
                                BufferReleaseMsg(DeliveredStatus(msg.status), msg.latency,
                                                 msg.consumed_len, msg.xid, msg.status))]
                  /\ UNCHANGED bystanders
    /\ UNCHANGED <<recv_event>>

\* virtio_snd_event as it arrives on the event socket: id names the event,
\* size_ok tells whether recv returned size_of::<virtio_snd_event>() bytes
EventMsg(id, size_ok) == [id |-> id, size_ok |-> size_ok]

\* recv_event(&event_socket): the event read, or the end of the thread when
\* the size is wrong
RecvEvent(t) ==
    /\ evsock # <<>>
    /\ evsock' = Tail(evsock)
    /\ IF Head(evsock).size_ok
       THEN /\ rcvd' = Head(evsock).id
            /\ thr' = [thr EXCEPT ![t].pc = "event"]
       ELSE /\ thr' = ThreadExit(t, "UnexpectedMessageSize")
            /\ UNCHANGED rcvd
    /\ UNCHANGED <<events, event_notifier, reporting_events, evlog, nevents>>

\* one event of the batch wait() returned
ThrHandle(t) ==
    /\ thr[t].pc = "handle"
    /\ \E tok \in thr[t].pending :
         \/ /\ tok = "TxBufferMsg"
            /\ RecvBufferStatusMsg(t, tok, "tx")
            /\ UNCHANGED evVars
         \/ /\ tok = "RxBufferMsg"
            /\ RecvBufferStatusMsg(t, tok, "rx")
            /\ UNCHANGED evVars
         \/ /\ tok = "EventMsg"
            /\ RecvEvent(t)
            /\ UNCHANGED <<subs, chan, statusq, bystanders, recv_event>>
         \/ /\ tok = "Notification"
            /\ recv_event' = 0
            /\ thr' = AfterEvent(t, tok)
            /\ UNCHANGED <<subs, chan, statusq, bystanders, evVars>>
    /\ UNCHANGED <<q, qlock, sock, running, recv_thread, tlock, cs, nextXid,
                   everReg, everSent, clash, nspurious, ctlVars, endVars, conn, slock>>

\* the event is queued whatever the flags say
ShouldReportAlways(state_cpy) == TRUE

\* if state_cpy.reporting_events
ShouldReport(state_cpy) == state_cpy

\* Token::EventMsg deciding on the copy of the flags the loop head took
ThrEventStale(t) ==
    /\ thr[t].pc = "event"
    /\ IF ShouldReport(thr[t].state_cpy.reporting_events)
       THEN /\ events' = Append(events, rcvd)
            /\ evlog' = [evlog EXCEPT !.pushed = Append(@, rcvd)]
            /\ thr' = [thr EXCEPT ![t].pc = "ev_notify"]
       ELSE /\ evlog' = [evlog EXCEPT !.discarded = @ \cup {rcvd}]
            /\ thr' = AfterEvent(t, "EventMsg")
            /\ UNCHANGED events
    /\ rcvd' = 0
    /\ UNCHANGED <<q, qlock, subs, chan, sock, statusq, running, recv_event,
                   recv_thread, tlock, cs, nextXid, everReg, everSent, clash,
                   bystanders, nspurious, evsock, event_notifier, reporting_events,
                   nevents, ctlVars, endVars, conn, slock>>

\* Token::EventMsg after recv_event: copy the flags under the state lock and
\* push the event to the queue if events are reported, else drop it
ThrEvent(t) ==
    /\ thr[t].pc = "event"
    /\ IF ShouldReport(ThreadFlags.reporting_events)
       THEN /\ events' = Append(events, rcvd)
            /\ evlog' = [evlog EXCEPT !.pushed = Append(@, rcvd)]
            /\ thr' = [thr EXCEPT ![t].pc = "ev_notify", ![t].reads = @ + 1]
       ELSE /\ evlog' = [evlog EXCEPT !.discarded = @ \cup {rcvd}]
            /\ thr' = [AfterEvent(t, "EventMsg") EXCEPT ![t].reads = @ + 1]
            /\ UNCHANGED events
    /\ rcvd' = 0
    /\ UNCHANGED <<q, qlock, subs, chan, sock, statusq, running, recv_event,
                   recv_thread, tlock, cs, nextXid, everReg, everSent, clash,
                   bystanders, nspurious, evsock, event_notifier, reporting_events,
                   nevents, ctlVars, endVars, conn, slock>>

\* event_notifier.write(1) after the push
ThrEventNotify(t) ==
    /\ thr[t].pc = "ev_notify"
    /\ event_notifier' = event_notifier + 1
    /\ thr' = AfterEvent(t, "EventMsg")
    /\ UNCHANGED <<q, qlock, subs, chan, sock, statusq, running, recv_event,
                   recv_thread, tlock, cs, nextXid, everReg, everSent, clash,
                   bystanders, nspurious, evsock, rcvd, events, reporting_events,
                   evlog, nevents, ctlVars, endVars, conn, slock>>

\* ------------------------------------------ start_bg_thread / stop_bg_thread
\* start_bg_thread without the second look
SpawnAlways(handle) == TRUE

\* the second look at the handle, under the re-acquired lock
SpawnNeeded(handle) == handle = 0

FreeTids == {t \in Tids : thr[t].pc = "none"}
\* thread ids are handed out in order
FreeTid == CHOOSE t \in FreeTids : \A u \in FreeTids : t <= u
Spawned == Cardinality(Tids \ FreeTids)

\* start_bg_thread up to the first look at the handle
StartBgThread(c) ==
    /\ cs[c].pc = "idle"
    /\ tlock = NoOne
    /\ Cardinality(FreeTids) >
         Cardinality({b \in Callers : cs[b].pc \in {"clone_tx", "clone_rx", "spawn"}})
    /\ cs' = [cs EXCEPT ![c] =
            IF recv_thread # 0
            THEN [Idle EXCEPT !.op = "start", !.pc = "done", !.res = "Ok",
                              !.path = "early", !.epoch = Spawned]
            ELSE [Idle EXCEPT !.op = "start", !.pc = "clone_tx", !.epoch = Spawned]]
    /\ UNCHANGED <<q, qlock, subs, chan, sock, statusq, running, recv_event,
                   recv_thread, tlock, thr, nextXid, everReg, everSent, clash, bystanders, nspurious, extVars>>

\* recv_event.try_clone() and self.tx.lock().socket.try_clone()
StartCloneTx(c) ==
    /\ cs[c].pc = "clone_tx"
    /\ qlock["tx"] = NoOne
    /\ cs' = [cs EXCEPT ![c].pc = "clone_rx"]
    /\ UNCHANGED <<q, qlock, subs, chan, sock, statusq, running, recv_event,
                   recv_thread, tlock, thr, nextXid, everReg, everSent, clash, bystanders, nspurious, extVars>>

\* self.rx.lock().socket.try_clone() and event_socket.try_clone()
StartCloneRx(c) ==
    /\ cs[c].pc = "clone_rx"
    /\ qlock["rx"] = NoOne
    /\ cs' = [cs EXCEPT ![c].pc = "spawn"]
    /\ UNCHANGED <<q, qlock, subs, chan, sock, statusq, running, recv_event,
                   recv_thread, tlock, thr, nextXid, everReg, everSent, clash, bystanders, nspurious, extVars>>

\* start_bg_thread that sets running again when it spawns
StartSpawnRearm(c) ==
    /\ cs[c].pc = "spawn"
    /\ tlock = NoOne
    /\ IF SpawnNeeded(recv_thread)
       THEN /\ running' = TRUE
            /\ recv_thread' = FreeTid
            /\ thr' = [thr EXCEPT ![FreeTid] = [NoThread EXCEPT !.pc = "top", !.res = "new"]]
            /\ cs' = [cs EXCEPT ![c] = [Finish(c, "Ok", 0) EXCEPT !.path = "spawned"]]
       ELSE /\ cs' = [cs EXCEPT ![c] = [Finish(c, "Ok", 0) EXCEPT !.path = "found"]]
            /\ UNCHANGED <<recv_thread, thr, running>>
    /\ UNCHANGED <<q, qlock, subs, chan, sock, statusq, recv_event,
                   tlock, nextXid, everReg, everSent, clash, bystanders, nspurious, extVars>>

\* self.recv_thread.lock(), the second look, and spawn_recv_thread
StartSpawn(c) ==
    /\ cs[c].pc = "spawn"
    /\ tlock = NoOne
    /\ IF SpawnNeeded(recv_thread)
       THEN /\ recv_thread' = FreeTid
            /\ thr' = [thr EXCEPT ![FreeTid] = [NoThread EXCEPT !.pc = "top", !.res = "new"]]
            /\ cs' = [cs EXCEPT ![c] = [Finish(c, "Ok", 0) EXCEPT !.path = "spawned"]]
       ELSE /\ cs' = [cs EXCEPT ![c] = [Finish(c, "Ok", 0) EXCEPT !.path = "found"]]
            /\ UNCHANGED <<recv_thread, thr>>
    /\ UNCHANGED <<q, qlock, subs, chan, sock, statusq, running, recv_event,
                   tlock, nextXid, everReg, everSent, clash, bystanders, nspurious, extVars>>

\* one of the try_clone calls of start_bg_thread fails (descriptor
\* duplication): the call returns the error and nothing is spawned
StartCloneFail(c) ==
    /\ \/ /\ cs[c].pc = "clone_tx"
          /\ \E r \in {"EventDupError", "UnixSeqpacketDupError"} :
               cs' = [cs EXCEPT ![c] = Finish(c, r, 0)]
       \/ /\ cs[c].pc = "clone_rx"
          /\ cs' = [cs EXCEPT ![c] = Finish(c, "UnixSeqpacketDupError", 0)]
       \/ /\ cs[c].pc = "spawn"
          /\ tlock = NoOne
          /\ SpawnNeeded(recv_thread)
          /\ cs' = [cs EXCEPT ![c] = Finish(c, "EventDupError", 0)]
    /\ UNCHANGED <<q, qlock, subs, chan, sock, statusq, running, recv_event,
                   recv_thread, tlock, thr, nextXid, everReg, everSent, clash, bystanders, nspurious, extVars>>

\* stop_bg_thread without the early return
StopBgThreadNoCheck(c) ==
    /\ cs[c].pc = "idle"
    /\ tlock = NoOne
    /\ cs' = [cs EXCEPT ![c] =
            [Idle EXCEPT !.op = "stop", !.pc = "clear_running", !.epoch = Spawned]]
    /\ UNCHANGED <<q, qlock, subs, chan, sock, statusq, running, recv_event,
                   recv_thread, tlock, thr, nextXid, everReg, everSent, clash,
                   bystanders, nspurious, extVars>>

\* stop_bg_thread that clears running before it looks at the handle
StopBgThreadEager(c) ==
    /\ cs[c].pc = "idle"
    /\ tlock = NoOne
    /\ running' = FALSE
    /\ cs' = [cs EXCEPT ![c] =
            IF recv_thread = 0
            THEN [Idle EXCEPT !.op = "stop", !.pc = "done", !.res = "Ok",
                              !.path = "early", !.epoch = Spawned]
            ELSE [Idle EXCEPT !.op = "stop", !.pc = "clear_running", !.epoch = Spawned]]
    /\ UNCHANGED <<q, qlock, subs, chan, sock, statusq, recv_event,
                   recv_thread, tlock, thr, nextXid, everReg, everSent, clash, bystanders, nspurious, extVars>>

\* stop_bg_thread up to the look at the handle
StopBgThread(c) ==
    /\ cs[c].pc = "idle"
    /\ tlock = NoOne
    /\ cs' = [cs EXCEPT ![c] =
            IF recv_thread = 0
            THEN [Idle EXCEPT !.op = "stop", !.pc = "done", !.res = "Ok",
                              !.path = "early", !.epoch = Spawned]
            ELSE [Idle EXCEPT !.op = "stop", !.pc = "clear_running", !.epoch = Spawned]]
    /\ UNCHANGED <<q, qlock, subs, chan, sock, statusq, running, recv_event,
                   recv_thread, tlock, thr, nextXid, everReg, everSent, clash, bystanders, nspurious, extVars>>

\* stop_bg_thread that also empties the subscriber maps
StopClearRunningAndMaps(c) ==
    /\ cs[c].pc = "clear_running"
    /\ running' = FALSE
    /\ subs' = [d \in Dirs |-> [o \in Offsets |-> 0]]
    /\ chan' = [k \in Xids |-> [chan[k] EXCEPT !.tx = FALSE]]
    /\ cs' = [cs EXCEPT ![c].pc = "notify"]
    /\ UNCHANGED <<q, qlock, sock, statusq, recv_event, recv_thread,
                   tlock, thr, nextXid, everReg, everSent, clash, bystanders,
                   nspurious, extVars>>

\* self.recv_thread_state.lock().running = false
StopClearRunning(c) ==
    /\ cs[c].pc = "clear_running"
    /\ running' = FALSE
    /\ cs' = [cs EXCEPT ![c].pc = "notify"]
    /\ UNCHANGED <<q, qlock, subs, chan, sock, statusq, recv_event, recv_thread,
                   tlock, thr, nextXid, everReg, everSent, clash, bystanders, nspurious, extVars>>

\* stop_bg_thread that does not write to recv_event
StopNotifySilent(c) ==
    /\ cs[c].pc = "notify"
    /\ cs' = [cs EXCEPT ![c].pc = "take"]
    /\ UNCHANGED <<q, qlock, subs, chan, sock, statusq, running, recv_event, recv_thread,
                   tlock, thr, nextXid, everReg, everSent, clash, bystanders, nspurious, extVars>>

\* self.recv_event.write(1): the eventfd counter stays far below its limit,
\* so the write cannot fail
StopNotify(c) ==
    /\ cs[c].pc = "notify"
    /\ recv_event' = recv_event + 1
    /\ cs' = [cs EXCEPT ![c].pc = "take"]
    /\ UNCHANGED <<q, qlock, subs, chan, sock, statusq, running, recv_thread,
                   tlock, thr, nextXid, everReg, everSent, clash, bystanders, nspurious, extVars>>

\* self.recv_thread.lock().take(): the guard lives to the end of the if-let,
\* so the lock stays held while the handle is joined
StopTake(c) ==
    /\ cs[c].pc = "take"
    /\ tlock = NoOne
    /\ IF recv_thread # 0
       THEN /\ cs' = [cs EXCEPT ![c].pc = "join", ![c].handle = recv_thread]
            /\ recv_thread' = 0
            /\ tlock' = c
       ELSE /\ cs' = [cs EXCEPT ![c] = [Finish(c, "Ok", 0) EXCEPT !.path = "taken"]]
            /\ UNCHANGED <<recv_thread, tlock>>
    /\ UNCHANGED <<q, qlock, subs, chan, sock, statusq, running, recv_event,
                   thr, nextXid, everReg, everSent, clash, bystanders, nspurious, extVars>>

\* handle.join() whose result is thrown away
StopJoinSwallow(c) ==
    /\ cs[c].pc = "join"
    /\ thr[cs[c].handle].pc = "exited"
    /\ cs' = [cs EXCEPT ![c] = [Finish(c, "Ok", 0) EXCEPT !.path = "joined"]]
    /\ tlock' = NoOne
    /\ UNCHANGED <<q, qlock, subs, chan, sock, statusq, running, recv_event,
                   recv_thread, thr, nextXid, everReg, everSent, clash, bystanders,
                   nspurious, extVars>>

\* handle.join(): returns the thread's result once it has ended
StopJoin(c) ==
    /\ cs[c].pc = "join"
    /\ thr[cs[c].handle].pc = "exited"
    /\ cs' = [cs EXCEPT ![c] =
            [Finish(c, thr[cs[c].handle].res, 0) EXCEPT !.path = "joined"]]
    /\ tlock' = NoOne
    /\ UNCHANGED <<q, qlock, subs, chan, sock, statusq, running, recv_event,
                   recv_thread, thr, nextXid, everReg, everSent, clash, bystanders, nspurious, extVars>>

\* ------------------------------------------------------------------ Drop
\* Drop for VioSClient: drop(&mut self) runs when no facade thread is inside
\* a call and none can start one; it calls stop_bg_thread, whose look at the
\* handle is taken here
DropClient(c) ==
    /\ ~dropped
    /\ \A b \in Callers : cs[b].pc = "idle"
    /\ tlock = NoOne
    /\ dropped' = TRUE
    /\ cs' = [cs EXCEPT ![c] =
            IF recv_thread = 0
            THEN [Idle EXCEPT !.op = "drop", !.pc = "done", !.res = "Ok",
                              !.path = "early", !.epoch = Spawned]
            ELSE [Idle EXCEPT !.op = "drop", !.pc = "clear_running", !.epoch = Spawned]]
    /\ UNCHANGED <<q, qlock, subs, chan, sock, statusq, running, recv_event,
                   recv_thread, tlock, thr, nextXid, everReg, everSent, clash,
                   bystanders, nspurious, ctlVars, evVars, logged, conn, slock>>

\* drop that hands the error of stop_bg_thread on
DropLogPropagating(c) ==
    /\ cs[c].op = "drop"
    /\ cs[c].pc = "done"
    /\ cs' = [cs EXCEPT ![c].pc = "gone",
                        ![c].res = IF cs[c].res = "Ok" THEN "Dropped" ELSE cs[c].res]
    /\ UNCHANGED <<q, qlock, subs, chan, sock, statusq, running, recv_event,
                   recv_thread, tlock, thr, nextXid, everReg, everSent, clash,
                   bystanders, nspurious, extVars>>

\* drop after stop_bg_thread has returned: an Err is passed to error!() and
\* drop returns
DropLog(c) ==
    /\ cs[c].op = "drop"
    /\ cs[c].pc = "done"
    /\ logged' = IF cs[c].res # "Ok" THEN logged \cup {cs[c].res} ELSE logged
    /\ cs' = [cs EXCEPT ![c].pc = "gone", ![c].res = "Dropped"]
    /\ UNCHANGED <<q, qlock, subs, chan, sock, statusq, running, recv_event,
                   recv_thread, tlock, thr, nextXid, everReg, everSent, clash,
                   bystanders, nspurious, ctlVars, evVars, dropped, conn, slock>>

\* ------------------------------------------ get_event_notifier / pop_event
\* get_event_notifier: set reporting_events under the state lock and hand
\* out a clone of the notifier
GetEventNotifier(c) ==
    /\ cs[c].pc = "idle"
    /\ reporting_events' = TRUE
    /\ cs' = [cs EXCEPT ![c] = [Idle EXCEPT !.op = "notifier", !.pc = "done", !.res = "Ok"]]
    /\ UNCHANGED <<q, qlock, subs, chan, sock, statusq, running, recv_event,
                   recv_thread, tlock, thr, nextXid, everReg, everSent, clash,
                   bystanders, nspurious, evsock, rcvd, events, event_notifier,
                   evlog, nevents, ctlVars, endVars, conn, slock>>

\* VecDeque::pop_back in place of pop_front
pop_back(dq) ==
    IF dq = <<>> THEN [some |-> FALSE, val |-> 0, rest |-> dq]
    ELSE [some |-> TRUE, val |-> dq[Len(dq)], rest |-> SubSeq(dq, 1, Len(dq) - 1)]

\* VecDeque::pop_front
pop_front(dq) ==
    IF dq = <<>> THEN [some |-> FALSE, val |-> 0, rest |-> dq]
    ELSE [some |-> TRUE, val |-> Head(dq), rest |-> Tail(dq)]

\* pop_event: self.events.lock().pop_front()
PopEvent(c) ==
    /\ cs[c].pc = "idle"
    /\ LET r == pop_front(events)
       IN /\ events' = r.rest
          /\ evlog' = IF r.some THEN [evlog EXCEPT !.popped = Append(@, r.val)] ELSE evlog
          /\ cs' = [cs EXCEPT ![c] =
                  [Idle EXCEPT !.op = "pop", !.pc = "done",
                               !.res = IF r.some THEN "Some" ELSE "None", !.val = r.val]]
    /\ UNCHANGED <<q, qlock, subs, chan, sock, statusq, running, recv_event,
                   recv_thread, tlock, thr, nextXid, everReg, everSent, clash,
                   bystanders, nspurious, evsock, rcvd, event_notifier,
                   reporting_events, nevents, ctlVars, endVars, conn, slock>>

\* ---------------------------------------------------- command exchange
\* codes the server may put in a status reply
CmdCodes == {VIRTIO_SND_S_OK, U32(0, 1), U32Max}

\* virtio_snd_pcm_hdr as written on the control socket.  History field: by
\* names the facade thread that wrote it
CmdRequest(stream_id, by) == [stream_id |-> stream_id, by |-> by]

\* recv_cmd_status that takes every reply for a success
recv_cmd_status_any_ok(code) == [res |-> "Ok", val |-> 0]

\* recv_cmd_status, on the code of the reply it read
recv_cmd_status(code) ==
    IF code = VIRTIO_SND_S_OK
    THEN [res |-> "Ok", val |-> 0]
    ELSE [res |-> "CommandFailed", val |-> code]

\* common_stream_op (prepare_stream, release_stream, start_stream,
\* stop_stream): the stream lookup, then send_cmd
CommonStreamOp(c, sid) ==
    /\ cs[c].pc = "idle"
    /\ cs' = [cs EXCEPT ![c] =
            IF sid >= Len(streams)
            THEN [Idle EXCEPT !.op = "cmd", !.stream_id = sid, !.pc = "done",
                              !.res = "InvalidStreamId", !.val = sid]
            ELSE [Idle EXCEPT !.op = "cmd", !.stream_id = sid, !.pc = "cmd_lock"]]
    /\ UNCHANGED <<q, qlock, subs, chan, sock, statusq, running, recv_event,
                   recv_thread, tlock, thr, nextXid, everReg, everSent, clash,
                   bystanders, nspurious, extVars>>

\* set_stream_parameters / set_stream_parameters_raw: the stream lookup,
\* then send_cmd
SetStreamParameters(c, sid) ==
    /\ cs[c].pc = "idle"
    /\ cs' = [cs EXCEPT ![c] =
            IF sid >= Len(streams)
            THEN [Idle EXCEPT !.op = "set_params", !.stream_id = sid, !.pc = "done",
                              !.res = "InvalidStreamId", !.val = sid]
            ELSE [Idle EXCEPT !.op = "set_params", !.stream_id = sid,
                              !.pc = "cmd_lock"]]
    /\ UNCHANGED <<q, qlock, subs, chan, sock, statusq, running, recv_event,
                   recv_thread, tlock, thr, nextXid, everReg, everSent, clash,
                   bystanders, nspurious, extVars>>

\* self.config.jacks of the connected client
config_jacks == Connected.counts[1]
\* the jack ids a caller may pass
JackIds == 0..(config_jacks + 1)

\* virtio_snd_jack_remap as written on the control socket (by: history)
JackRemap(jack_id, by) == [jack_id |-> jack_id, by |-> by]

\* a range test that lets the id one past the last jack through
jack_known_upto(jack_id) == jack_id <= config_jacks

\* jack_id >= self.config.jacks, negated
jack_known(jack_id) == jack_id < config_jacks

\* remap_jack: the range test of jack_id, then send_cmd
RemapJack(c, jack_id) ==
    /\ cs[c].pc = "idle"
    /\ cs' = [cs EXCEPT ![c] =
            IF jack_known(jack_id)
            THEN [Idle EXCEPT !.op = "remap", !.jack_id = jack_id, !.pc = "cmd_lock"]
            ELSE [Idle EXCEPT !.op = "remap", !.jack_id = jack_id, !.pc = "done",
                              !.res = "InvalidJackId", !.val = jack_id]]
    /\ UNCHANGED <<q, qlock, subs, chan, sock, statusq, running, recv_event,
                   recv_thread, tlock, thr, nextXid, everReg, everSent, clash,
                   bystanders, nspurious, extVars>>

\* send_cmd entered without taking the lock
CmdLockFree(c) ==
    /\ cs[c].pc = "cmd_lock"
    /\ cs' = [cs EXCEPT ![c].pc = "cmd_send"]
    /\ UNCHANGED <<q, qlock, subs, chan, sock, statusq, running, recv_event,
                   recv_thread, tlock, thr, nextXid, everReg, everSent, clash,
                   bystanders, nspurious, extVars>>

\* send_cmd: self.control_socket.lock()
CmdLock(c) ==
    /\ cs[c].pc = "cmd_lock"
    /\ clock = NoOne
    /\ clock' = c
    /\ cs' = [cs EXCEPT ![c].pc = "cmd_send"]
    /\ UNCHANGED <<q, qlock, subs, chan, sock, statusq, running, recv_event,
                   recv_thread, tlock, thr, nextXid, everReg, everSent, clash,
                   bystanders, nspurious, creq, crep, evVars, endVars, conn, slock>>

\* send_cmd: seq_socket_send of the request
CmdSend(c) ==
    /\ cs[c].pc = "cmd_send"
    /\ creq' = Append(creq, IF cs[c].op = "remap" THEN JackRemap(cs[c].jack_id, c)
                                                  ELSE CmdRequest(cs[c].stream_id, c))
    /\ cs' = [cs EXCEPT ![c].pc = "cmd_recv"]
    /\ UNCHANGED <<q, qlock, subs, chan, sock, statusq, running, recv_event,
                   recv_thread, tlock, thr, nextXid, everReg, everSent, clash,
                   bystanders, nspurious, clock, crep, evVars, endVars, conn, slock>>

\* send_cmd: seq_socket_send fails; the ? returns and the guard is dropped
CmdSendFail(c) ==
    /\ cs[c].pc = "cmd_send"
    /\ cs' = [cs EXCEPT ![c] = Finish(c, "ServerIOError", 0)]
    /\ clock' = IF clock = c THEN NoOne ELSE clock
    /\ UNCHANGED <<q, qlock, subs, chan, sock, statusq, running, recv_event,
                   recv_thread, tlock, thr, nextXid, everReg, everSent, clash,
                   bystanders, nspurious, creq, crep, evVars, endVars, conn, slock>>

\* send_cmd: recv_cmd_status reads one reply, then the guard is dropped
CmdRecv(c) ==
    /\ cs[c].pc = "cmd_recv"
    /\ crep # <<>>
    /\ LET r == recv_cmd_status(Head(crep).code)
       IN cs' = [cs EXCEPT ![c] = [Finish(c, r.res, r.val) EXCEPT !.reply = Head(crep)]]
    /\ crep' = Tail(crep)
    /\ clock' = IF clock = c THEN NoOne ELSE clock
    /\ UNCHANGED <<q, qlock, subs, chan, sock, statusq, running, recv_event,
                   recv_thread, tlock, thr, nextXid, everReg, everSent, clash,
                   bystanders, nspurious, creq, evVars, endVars, conn, slock>>

\* ------------------------------------------------------------ the server
Latencies == {7}
\* lengths the server may report for a transfer of len bytes
ConsumedLens(len) == {len}

IoStatusMsg(status, latency, buffer_offset, consumed_len, size_ok, xid) ==
    [status |-> status, latency |-> latency, buffer_offset |-> buffer_offset,
     consumed_len |-> consumed_len, size_ok |-> size_ok, xid |-> xid]

\* the server takes the oldest transfer message of a data socket and answers
\* it with a status message that echoes its offset
ServerAnswer(d) ==
    /\ sock[d] # <<>>
    /\ LET m == Head(sock[d])
       IN \E status \in Statuses, latency \in Latencies,
             len \in ConsumedLens(m.buffer_len) :
            statusq' = [statusq EXCEPT ![d] = Append(@,
                IoStatusMsg(status, latency, m.buffer_offset, len, TRUE, m.xid))]
    /\ sock' = [sock EXCEPT ![d] = Tail(@)]
    /\ UNCHANGED <<q, qlock, subs, chan, running, recv_event, recv_thread, tlock,
                   thr, cs, nextXid, everReg, everSent, clash, bystanders, nspurious, extVars>>

\* the server answers the oldest transfer message with success and a length
\* other than the one asked for: shorter, longer, or past the end of the area
ServerAnswerPartial(d) ==
    /\ sock[d] # <<>>
    /\ LET m == Head(sock[d])
       IN \E latency \in Latencies, len \in (0..(QSize + 1)) \ {m.buffer_len} :
            statusq' = [statusq EXCEPT ![d] = Append(@,
                IoStatusMsg(VIRTIO_SND_S_OK, latency, m.buffer_offset, len, TRUE, m.xid))]
    /\ sock' = [sock EXCEPT ![d] = Tail(@)]
    /\ UNCHANGED <<q, qlock, subs, chan, running, recv_event, recv_thread, tlock,
                   thr, cs, nextXid, everReg, everSent, clash, bystanders, nspurious,
                   extVars>>

\* the server takes the oldest request of the control socket and answers it
\* with a status reply
ServerCmdReply ==
    /\ creq # <<>>
    /\ \E code \in CmdCodes :
         crep' = Append(crep, CmdStatus(code, Head(creq).by))
    /\ creq' = Tail(creq)
    /\ UNCHANGED <<q, qlock, subs, chan, sock, statusq, running, recv_event,
                   recv_thread, tlock, thr, cs, nextXid, everReg, everSent, clash,
                   bystanders, nspurious, clock, evVars, endVars, conn, slock>>

\* the server sends an event message
ServerEvent ==
    /\ nevents < MaxEvents
    /\ nevents' = nevents + 1
    /\ evsock' = Append(evsock, EventMsg(nevents + 1, TRUE))
    /\ UNCHANGED <<q, qlock, subs, chan, sock, statusq, running, recv_event,
                   recv_thread, tlock, thr, cs, nextXid, everReg, everSent, clash,
                   bystanders, nspurious, rcvd, events, event_notifier,
                   reporting_events, evlog, ctlVars, endVars, conn, slock>>

\* the server sends a message of the wrong size on the event socket
ServerBadEvent ==
    /\ nevents < MaxEvents
    /\ nevents' = nevents + 1
    /\ evsock' = Append(evsock, EventMsg(nevents + 1, FALSE))
    /\ UNCHANGED <<q, qlock, subs, chan, sock, statusq, running, recv_event,
                   recv_thread, tlock, thr, cs, nextXid, everReg, everSent, clash,
                   bystanders, nspurious, rcvd, events, event_notifier,
                   reporting_events, evlog, ctlVars, endVars, conn, slock>>

\* the server sends a status message that answers no transfer: any offset
\* of the area, status OK, nothing consumed
ServerSpurious(d) ==
    /\ nspurious < MaxSpurious
    /\ nspurious' = nspurious + 1
    /\ \E latency \in Latencies, off \in Offsets :
         statusq' = [statusq EXCEPT ![d] = Append(@,
             IoStatusMsg(VIRTIO_SND_S_OK, latency, off, 0, TRUE, 0))]
    /\ UNCHANGED <<q, qlock, subs, chan, sock, running, recv_event, recv_thread,
                   tlock, thr, cs, nextXid, everReg, everSent, clash, bystanders, extVars>>

\* the server sends a message of the wrong size on a status channel
ServerBadSize(d) ==
    /\ nspurious < MaxSpurious
    /\ nspurious' = nspurious + 1
    /\ statusq' = [statusq EXCEPT ![d] = Append(@,
             IoStatusMsg(VIRTIO_SND_S_OK, 0, 0, 0, FALSE, 0))]
    /\ UNCHANGED <<q, qlock, subs, chan, sock, running, recv_event, recv_thread,
                   tlock, thr, cs, nextXid, everReg, everSent, clash, bystanders, extVars>>

\* ------------------------------------------------------- specification
\* the client try_new returns: empty queues and maps, running = true,
\* reporting_events = false, no thread
NewClient ==
    /\ q = [d \in Dirs |-> [next |-> 0]]
    /\ qlock = [d \in Dirs |-> NoOne]
    /\ subs = [d \in Dirs |-> [o \in Offsets |-> 0]]
    /\ chan = [k \in Xids |-> NoChan]
    /\ sock = [d \in Dirs |-> <<>>]
    /\ statusq = [d \in Dirs |-> <<>>]
    /\ running = TRUE
    /\ recv_event = 0
    /\ recv_thread = 0
    /\ tlock = NoOne
    /\ thr = [t \in Tids |-> NoThread]
    /\ cs = [c \in Callers |-> Idle]
    /\ nextXid = 1
    /\ everReg = [d \in Dirs |-> {}]
    /\ everSent = [d \in Dirs |-> {}]
    /\ clash = {}
    /\ bystanders = {}
    /\ nspurious = 0
    /\ clock = NoOne
    /\ creq = <<>>
    /\ crep = <<>>
    /\ evsock = <<>>
    /\ rcvd = 0
    /\ events = <<>>
    /\ event_notifier = 0
    /\ reporting_events = FALSE
    /\ evlog = NoEvents
    /\ nevents = 0
    /\ dropped = FALSE
    /\ logged = {}
    /\ slock = [d \in Dirs |-> NoOne]

\* VioSClient::try_new has returned the client
Init ==
    /\ NewClient
    /\ conn = Connected

\* inject_audio_data and request_audio_data, by any facade thread
XferOps ==
    \/ \E c \in Callers, op \in {"inject", "request"}, sid \in StreamIds, size \in Sizes :
         CallXfer(c, op, sid, size)
    \/ \E c \in Callers : Alloc(c)
    \/ \E c \in Callers : Register(c)
    \/ \E c \in Callers : Send(c)
    \/ \E c \in Callers : Unlock(c)
    \/ \E c \in Callers : Await(c)
    \/ \E c \in Callers : View(c)

StartOps ==
    \/ \E c \in Callers : StartBgThread(c)
    \/ \E c \in Callers : StartCloneTx(c)
    \/ \E c \in Callers : StartCloneRx(c)
    \/ \E c \in Callers : StartSpawn(c)

StopOps ==
    \/ \E c \in Callers : StopBgThread(c)
    \/ \E c \in Callers : StopClearRunning(c)
    \/ \E c \in Callers : StopNotify(c)
    \/ \E c \in Callers : StopTake(c)
    \/ \E c \in Callers : StopJoin(c)

ThreadSteps ==
    \/ \E t \in Tids : ThrTop(t)
    \/ \E t \in Tids : ThrWait(t)
    \/ \E t \in Tids : ThrHandle(t)

\* the recv thread's handling of an event it has read
EventSteps ==
    \/ \E t \in Tids : ThrEvent(t)
    \/ \E t \in Tids : ThrEventNotify(t)

\* Streaming: facade threads start the receiver and transfer in both
\* directions against a server that answers every transfer message
Next ==
    \/ XferOps
    \/ StartOps
    \/ ThreadSteps
    \/ \E c \in Callers : Return(c)
    \/ \E d \in Dirs : ServerAnswer(d)

Spec == Init /\ [][Next]_vars

\* every thread that can take a step eventually takes one: the recv thread,
\* and a facade thread inside a call
Fairness ==
    /\ \A t \in Tids : WF_vars(ThrTop(t) \/ ThrWait(t) \/ ThrHandle(t))
    /\ \A c \in Callers : WF_vars(Alloc(c) \/ Register(c) \/ Send(c) \/ Unlock(c)
                                   \/ Await(c) \/ View(c))

SpecLive == Spec /\ Fairness

\* Streaming against a server that also sends status messages nobody asked for
NextUnsolicited ==
    \/ Next
    \/ \E d \in Dirs : ServerSpurious(d)

SpecUnsolicited == Init /\ [][NextUnsolicited]_vars

\* Lifecycle: facade threads start and stop the receiver, which stays idle
NextLifecycle ==
    \/ StartOps
    \/ StopOps
    \/ ThreadSteps
    \/ \E c \in Callers : Return(c)

SpecLifecycle == Init /\ [][NextLifecycle]_vars

\* the recv thread and a facade thread inside stop_bg_thread keep being
\* scheduled
FairnessLifecycle ==
    /\ \A t \in Tids : WF_vars(ThrTop(t) \/ ThrWait(t) \/ ThrHandle(t))
    /\ \A c \in Callers : WF_vars(StopClearRunning(c) \/ StopNotify(c) \/ StopTake(c)
                                   \/ StopJoin(c))

SpecLifecycleLive == SpecLifecycle /\ FairnessLifecycle

\* Events: the server sends events while facade threads start and stop the
\* receiver, ask for the notifier and poll the queue
NextEvents ==
    \/ StartOps
    \/ StopOps
    \/ ThreadSteps
    \/ EventSteps
    \/ ServerEvent
    \/ \E c \in Callers : GetEventNotifier(c)
    \/ \E c \in Callers : PopEvent(c)
    \/ \E c \in Callers : Return(c)

SpecEvents == Init /\ [][NextEvents]_vars

\* Streaming while the receiver is stopped, restarted, or ended by a failed
\* wait
NextStopping ==
    \/ Next
    \/ StopOps
    \/ \E t \in Tids : ThrWaitFail(t)

SpecStopping == Init /\ [][NextStopping]_vars

SpecStoppingLive == SpecStopping /\ Fairness

\* stop_bg_thread past its look at the handle
StopSteps ==
    \/ \E c \in Callers : StopClearRunning(c)
    \/ \E c \in Callers : StopNotify(c)
    \/ \E c \in Callers : StopTake(c)
    \/ \E c \in Callers : StopJoin(c)

\* what ends the recv thread with an error: a failed WaitContext, a failed
\* wait, a status or event message of the wrong size
ThreadFaults ==
    \/ \E t \in Tids : ThrBuildFail(t)
    \/ \E t \in Tids : ThrWaitFail(t)
    \/ \E d \in Dirs : ServerBadSize(d)
    \/ ServerBadEvent

\* Teardown: facade threads start and stop a receiver that may fail, until
\* the last of them drops the client
NextTeardown ==
    \/ ~dropped /\ StartOps
    \/ ~dropped /\ \E c \in Callers : StopBgThread(c)
    \/ StopSteps
    \/ ThreadSteps
    \/ ThreadFaults
    \/ \E c \in Callers : DropClient(c)
    \/ \E c \in Callers : DropLog(c)
    \/ \E c \in Callers : cs[c].op # "drop" /\ Return(c)

SpecTeardown == Init /\ [][NextTeardown]_vars

\* the recv thread and a facade thread inside stop_bg_thread or drop keep
\* being scheduled
FairnessTeardown ==
    /\ \A t \in Tids : WF_vars(ThrTop(t) \/ ThrWait(t) \/ ThrHandle(t))
    /\ \A c \in Callers : WF_vars(StopClearRunning(c) \/ StopNotify(c) \/ StopTake(c)
                                   \/ StopJoin(c) \/ DropLog(c))

SpecTeardownLive == SpecTeardown /\ FairnessTeardown

\* Use: facade threads start and stop the receiver and transfer in both
\* directions, until the last of them drops the client
NextUse ==
    \/ ~dropped /\ XferOps
    \/ ~dropped /\ StartOps
    \/ ~dropped /\ \E c \in Callers : StopBgThread(c)
    \/ StopSteps
    \/ ThreadSteps
    \/ \E d \in Dirs : ServerAnswer(d)
    \/ \E c \in Callers : DropClient(c)
    \/ \E c \in Callers : DropLog(c)
    \/ \E c \in Callers : cs[c].op # "drop" /\ Return(c)

SpecUse == Init /\ [][NextUse]_vars

\* try_new on whatever the server sent with the handshake
InitConnect ==
    /\ NewClient
    /\ conn \in {Handshake(n, f, v, k) : n \in RecvSizes, f \in FdCounts, v \in Versions,
                                         k \in [1..Len(QueryOrder) -> Counts]}

NextConnect ==
    \/ ConnCheckSize
    \/ ConnCheckVersion
    \/ ConnPop
    \/ ConnBuild
    \/ ConnQuery
    \/ ConnFinish

SpecConnect == InitConnect /\ [][NextConnect]_vars

CmdOps ==
    \/ \E c \in Callers, sid \in StreamIds : CommonStreamOp(c, sid)
    \/ \E c \in Callers : CmdLock(c)
    \/ \E c \in Callers : CmdSend(c)
    \/ \E c \in Callers : CmdRecv(c)

\* Commands: facade threads run stream commands against a server that
\* answers every request, while the receiver is started and stopped
NextControl ==
    \/ CmdOps
    \/ ServerCmdReply
    \/ StartOps
    \/ StopOps
    \/ ThreadSteps
    \/ \E c \in Callers : Return(c)

SpecControl == Init /\ [][NextControl]_vars

\* The facade: commands, jack remaps and transfers side by side, against a
\* server that answers every request and every transfer message
NextFacade ==
    \/ CmdOps
    \/ \E c \in Callers, sid \in StreamIds : SetStreamParameters(c, sid)
    \/ \E c \in Callers, jack_id \in JackIds : RemapJack(c, jack_id)
    \/ ServerCmdReply
    \/ Next

SpecFacade == Init /\ [][NextFacade]_vars

\* ------------------------------------------- the subscriber map locks
\* In the actions above a statement that locks a subscriber map, uses it and
\* drops the guard is one step.  Here the guard is taken and dropped in steps
\* of their own, so that a facade thread inside insert and the recv thread
\* inside remove keep each other out.
ThrName(t) == "recv" \o ToString(t)
TokenOf(d) == IF d = "tx" THEN "TxBufferMsg" ELSE "RxBufferMsg"

\* self.tx_subscribers.lock() / self.rx_subscribers.lock() inside the block
\* that holds the queue lock
RegisterLock(c) ==
    /\ cs[c].pc = "register"
    /\ slock[DirOf(cs[c].op)] = NoOne
    /\ slock' = [slock EXCEPT ![DirOf(cs[c].op)] = c]
    /\ UNCHANGED <<q, qlock, subs, chan, sock, statusq, running, recv_event,
                   recv_thread, tlock, thr, cs, nextXid, everReg, everSent, clash,
                   bystanders, nspurious, ctlVars, evVars, endVars, conn>>

\* .insert(offset, sender) under the guard
RegisterInsert(c) ==
    /\ slock[DirOf(cs[c].op)] = c
    /\ Register(c)

\* end of the insert statement: the guard of the subscriber map is dropped
RegisterUnlock(c) ==
    /\ cs[c].pc # "register"
    /\ slock[DirOf(cs[c].op)] = c
    /\ slock' = [slock EXCEPT ![DirOf(cs[c].op)] = NoOne]
    /\ UNCHANGED <<q, qlock, subs, chan, sock, statusq, running, recv_event,
                   recv_thread, tlock, thr, cs, nextXid, everReg, everSent, clash,
                   bystanders, nspurious, ctlVars, evVars, endVars, conn>>

\* seq_socket_send with the guard of the subscriber map still alive
SendLocked(c) == Send(c)

\* seq_socket_send, after the insert statement has ended
SendUnlocked(c) ==
    /\ slock[DirOf(cs[c].op)] # c
    /\ Send(c)

\* a recv thread that may lock one subscriber map inside the other's guard
ThrFreeAlways(t) == TRUE

\* the recv thread outside recv_buffer_status_msg
ThrFree(t) == \A d \in Dirs : slock[d] # ThrName(t)

\* recv_buffer_status_msg: subscribers.lock(), for a status message of the
\* right size that is waiting on the data socket of direction d
ThrLockSubs(t, d) ==
    /\ thr[t].pc = "handle"
    /\ TokenOf(d) \in thr[t].pending
    /\ statusq[d] # <<>> /\ Head(statusq[d]).size_ok
    /\ ThrFree(t)
    /\ slock[d] = NoOne
    /\ slock' = [slock EXCEPT ![d] = ThrName(t)]
    /\ UNCHANGED <<q, qlock, subs, chan, sock, statusq, running, recv_event,
                   recv_thread, tlock, thr, cs, nextXid, everReg, everSent, clash,
                   bystanders, nspurious, ctlVars, evVars, endVars, conn>>

\* one event of the batch: a status message of the right size is handled
\* under the guard of its subscriber map, everything else without a guard
ThrHandleLocked(t) ==
    /\ ThrHandle(t)
    /\ \A d \in Dirs :
         slock[d] = ThrName(t) <=>
             (statusq'[d] # statusq[d] /\ Head(statusq[d]).size_ok)

\* end of the remove statement: the guard is dropped
ThrUnlockSubs(t, d) ==
    /\ slock[d] = ThrName(t)
    /\ TokenOf(d) \notin thr[t].pending
    /\ slock' = [slock EXCEPT ![d] = NoOne]
    /\ UNCHANGED <<q, qlock, subs, chan, sock, statusq, running, recv_event,
                   recv_thread, tlock, thr, cs, nextXid, everReg, everSent, clash,
                   bystanders, nspurious, ctlVars, evVars, endVars, conn>>

LockedXferOps ==
    \/ \E c \in Callers, op \in {"inject", "request"}, sid \in StreamIds, size \in Sizes :
         CallXfer(c, op, sid, size)
    \/ \E c \in Callers : Alloc(c)
    \/ \E c \in Callers : RegisterLock(c)
    \/ \E c \in Callers : RegisterInsert(c)
    \/ \E c \in Callers : RegisterUnlock(c)
    \/ \E c \in Callers : SendUnlocked(c)
    \/ \E c \in Callers : Unlock(c)
    \/ \E c \in Callers : Await(c)
    \/ \E c \in Callers : View(c)

LockedThreadSteps ==
    \/ \E t \in Tids : ThrFree(t) /\ ThrTop(t)
    \/ \E t \in Tids : ThrFree(t) /\ ThrWait(t)
    \/ \E t \in Tids, d \in Dirs : ThrLockSubs(t, d)
    \/ \E t \in Tids : ThrHandleLocked(t)
    \/ \E t \in Tids, d \in Dirs : ThrUnlockSubs(t, d)

\* Locks: transfers, start and stop with every lock of the client taken and
\* dropped where the code takes and drops it
NextLocks ==
    \/ LockedXferOps
    \/ LockedThreadSteps
    \/ StartOps
    \/ StopOps
    \/ \E c \in Callers : Return(c)
    \/ \E d \in Dirs : ServerAnswer(d)

SpecLocks == Init /\ [][NextLocks]_vars

\* Streaming with transfer messages that fail to be sent and status
\* messages nobody asked for
NextRegistry ==
    \/ NextUnsolicited
    \/ \E c \in Callers : SendFail(c)

SpecRegistry == Init /\ [][NextRegistry]_vars

\* Streaming against a server that reports any consumed length
NextPartial ==
    \/ Next
    \/ \E d \in Dirs : ServerAnswerPartial(d)

SpecPartial == Init /\ [][NextPartial]_vars

\* the failures of the client's environment: sends, waits and descriptor
\* duplications that fail, and malformed status messages
Fault ==
    \/ \E c \in Callers : SendFail(c)
    \/ \E c \in Callers : StartCloneFail(c)
    \/ \E t \in Tids : ThrBuildFail(t)
    \/ \E t \in Tids : ThrWaitFail(t)
    \/ \E d \in Dirs : ServerBadSize(d)

\* ======================================================== properties
\* transfers a facade thread is inside of, past allocate_buffer
InBlock(c) == cs[c].pc \in {"register", "send", "unlock"}

\* C1: in inject_audio_data and request_audio_data the sender of a transfer is
\* inserted into the direction's subscribers map before its transfer message
\* is sent: every message ever sent on a data socket belongs to a transfer
\* that had been registered by then.
C1_RegisteredBeforeSent ==
    \A d \in Dirs :
        /\ everSent[d] \subseteq everReg[d]
        /\ \A i \in 1..Len(sock[d]) : sock[d][i].xid \in everReg[d]

\* a write and a read have both been sent
C1_Witness == everSent["tx"] # {} /\ everSent["rx"] # {}

\* the server has answered transfer k, whose caller is still inside its call,
\* and a recv thread has been started
Answered(k) ==
    /\ recv_thread # 0
    /\ \E c \in Callers : cs[c].xid = k /\ cs[c].pc # "done"
    /\ \E d \in Dirs : \E i \in 1..Len(statusq[d]) : statusq[d][i].xid = k

\* the caller of transfer k has received the completion the server sent for k
Completed(k) == \E c \in Callers : cs[c].xid = k /\ cs[c].got.xid = k

\* C2: with the recv thread running, once the server has answered a transfer
\* with a status message echoing its offset, the caller receives that
\* completion, unless another outstanding transfer of the same direction used
\* the same offset; this holds under every interleaving, also when the recv
\* thread handles the status before the caller's send has returned.
C2_CompletionDelivered ==
    \A k \in Xids : Answered(k) ~> (Completed(k) \/ k \in clash)

\* the completion already sits in the channel while the caller has not yet
\* left the block in which it sent the message
C2_Witness ==
    \E c \in Callers :
        /\ cs[c].pc = "unlock"
        /\ chan[cs[c].xid].buf # <<>>
        /\ chan[cs[c].xid].buf[1].xid = cs[c].xid

\* C3: the write cursor of each queue stays within [0, capacity], and every
\* offset a successful allocate_buffer(size) returned satisfies
\* offset + size <= capacity, whatever allocations succeeded or failed before.
C3_CursorInRange ==
    /\ \A d \in Dirs : q[d].next \in 0..QSize
    /\ \A c \in Callers :
         cs[c].xid # 0 => cs[c].offset >= 0 /\ cs[c].offset + cs[c].size <= QSize

\* a buffer that ends exactly at the end of the area, after a failed allocation
C3_Witness ==
    \E c, b \in Callers :
        /\ cs[c].xid # 0 /\ cs[c].offset > 0 /\ cs[c].offset + cs[c].size = QSize
        /\ cs[b].res = "OutOfSpace"

\* C4: with the cursor at n and size <= capacity, allocate_buffer returns n
\* when size <= capacity - n and 0 otherwise, and leaves the cursor at the
\* returned offset + size (so on a fresh queue, n = 0, it returns 0).
C4_AllocateRule ==
    \A c \in Callers :
        InBlock(c) =>
            /\ cs[c].size <= QSize
            /\ cs[c].offset = (IF cs[c].size <= QSize - cs[c].pre THEN cs[c].pre ELSE 0)
            /\ q[DirOf(cs[c].op)].next = cs[c].offset + cs[c].size
            /\ (cs[c].pre = 0 => cs[c].offset = 0)

\* an allocation that did not fit the tail and restarted at offset 0
C4_Witness ==
    \E c \in Callers :
        InBlock(c) /\ cs[c].pre > 0 /\ cs[c].size > QSize - cs[c].pre /\ cs[c].offset = 0

\* C5: allocate_buffer(size) with size > capacity fails with OutOfSpace at
\* every cursor position and leaves the cursor where it was; the transfer call
\* ends there, having registered nothing and sent nothing.
C5_OutOfSpace ==
    [][\A c \in Callers :
          (cs[c].pc = "alloc" /\ cs[c].size > QSize /\ cs'[c] # cs[c]) =>
              /\ cs'[c].pc = "done"
              /\ cs'[c].res = "OutOfSpace"
              /\ cs'[c].xid = 0
              /\ UNCHANGED <<q, qlock, subs, chan, sock, everReg, everSent, extVars>>]_vars

\* an oversized request refused with the cursor away from 0
C5_Witness ==
    \E c \in Callers :
        cs[c].res = "OutOfSpace" /\ cs[c].pre > 0 /\ q[DirOf(cs[c].op)].next = cs[c].pre

\* C6: inject_audio_data on a stream that is not an output stream, and
\* request_audio_data on a stream that is not an input stream, return
\* WrongDirection at once: the cursors, both subscriber maps, both data
\* sockets and the queue locks are untouched and the callback does not run.
C6_WrongDirection ==
    [][\A c \in Callers :
          (/\ cs[c].pc = "idle"
           /\ cs'[c].op \in {"inject", "request"}
           /\ cs'[c].stream_id < Len(streams)
           /\ \/ /\ cs'[c].op = "inject"
                 /\ streams[cs'[c].stream_id + 1] # VIRTIO_SND_D_OUTPUT
              \/ /\ cs'[c].op = "request"
                 /\ streams[cs'[c].stream_id + 1] # VIRTIO_SND_D_INPUT) =>
              /\ cs'[c].pc = "done"
              /\ cs'[c].res = "WrongDirection"
              /\ ~cs'[c].filled /\ ~cs'[c].viewed
              /\ UNCHANGED <<q, qlock, subs, chan, sock, statusq, extVars>>]_vars

\* a write refused on the capture stream and a read refused on the playback stream
C6_Witness ==
    \E c, b \in Callers :
        /\ cs[c].op = "inject" /\ cs[c].res = "WrongDirection" /\ cs[c].stream_id = 1
        /\ cs[b].op = "request" /\ cs[b].res = "WrongDirection" /\ cs[b].stream_id = 0

\* the messages that reached a channel or a waiting caller
Delivered ==
    {chan[k].buf[1] : k \in {x \in Xids : chan[x].buf # <<>>}}
        \cup {cs[c].got : c \in Callers}

\* C7: a status message that carries 2^32 - 1 reaches the waiting caller as
\* 2^32 - 2, every other status reaches it unchanged, and no caller is ever
\* handed 2^32 - 1.
C7_StatusSentinel ==
    /\ \A m \in Delivered :
         /\ m.status # U32(65535, 65535)
         /\ m.status = (IF m.raw = U32(65535, 65535) THEN U32(65535, 65534) ELSE m.raw)
    /\ \A c \in Callers :
         cs[c].res = "IOBufferError" => cs[c].val = cs[c].got.status

\* a caller whose transfer the server answered with 2^32 - 1
C7_Witness ==
    \E c \in Callers :
        /\ cs[c].got.raw = U32(65535, 65535)
        /\ cs[c].res = "IOBufferError"
        /\ cs[c].val = U32(65535, 65534)

\* C8: a status message whose offset has no entry in the direction's
\* subscribers map does not end the recv thread and changes no entry of either
\* map nor any channel; a transfer that was registered at that moment is
\* still given its completion when the status for its own entry is handled.
C8_UnknownOffsetHarmless ==
    [][\A d \in Dirs :
          (/\ statusq[d] # <<>>
           /\ statusq'[d] = Tail(statusq[d])
           /\ Head(statusq[d]).size_ok) =>
              LET msg == Head(statusq[d])
                  k == subs[d][msg.buffer_offset]
              IN /\ k = 0 =>
                      /\ UNCHANGED <<subs, chan>>
                      /\ \A t \in Tids : thr'[t].pc = "exited" => thr[t].pc = "exited"
                 /\ (k # 0 /\ k \in bystanders /\ chan[k].rx) =>
                      /\ subs' = [subs EXCEPT ![d][msg.buffer_offset] = 0]
                      /\ Len(chan'[k].buf) = 1
                      /\ chan'[k].buf[1].xid = msg.xid
                      /\ chan'[k].buf[1].consumed_len = msg.consumed_len]_vars

\* a transfer that was outstanding while a status with no entry was handled
\* has since been completed by its own status message
C8_Witness ==
    \E c \in Callers :
        /\ cs[c].xid \in bystanders
        /\ cs[c].got.xid = cs[c].xid
        /\ cs[c].res = "Ok"

\* the recv threads that have been spawned and have not ended
LiveThreads == {t \in Tids : thr[t].pc \notin {"none", "exited"}}

\* C9: at most one recv thread exists at any time, and it is the one the
\* handle names (or the one being joined); start_bg_thread returns at once,
\* changing nothing, when it finds a handle; and when all facade threads run
\* start_bg_thread concurrently (none found a handle at its first look),
\* exactly one of them spawns a thread.
C9_SingleReceiver ==
    /\ [](/\ Cardinality(LiveThreads) <= 1
          /\ \A t \in LiveThreads :
               t = recv_thread \/ \E c \in Callers : cs[c].pc = "join" /\ cs[c].handle = t
          /\ (\A c \in Callers :
                /\ cs[c].op = "start" /\ cs[c].pc = "done" /\ cs[c].res = "Ok"
                /\ cs[c].path # "early"
                /\ \A b \in Callers : cs[b].epoch = cs[c].epoch)
             => Cardinality({c \in Callers : cs[c].path = "spawned"}) = 1)
    /\ [][\A c \in Callers :
            (cs[c].pc = "idle" /\ cs'[c].op = "start" /\ recv_thread # 0) =>
                /\ cs'[c].pc = "done"
                /\ cs'[c].res = "Ok"
                /\ UNCHANGED <<recv_thread, thr, running, recv_event>>]_vars

\* two concurrent start_bg_thread calls have returned: one spawned, the other
\* found the handle at its second look
C9_Witness ==
    \E c, b \in Callers :
        /\ cs[c].op = "start" /\ cs[c].pc = "done" /\ cs[c].path = "spawned"
        /\ cs[b].op = "start" /\ cs[b].pc = "done" /\ cs[b].path = "found"
        /\ Cardinality(LiveThreads) = 1

\* C10: stop_bg_thread on a running, idle recv thread returns Ok, and by then
\* the thread has ended and been joined; a stop_bg_thread that finds no handle
\* (as the second of two stops in a row does) returns Ok at once and leaves
\* the running flag, the stop notifier and the handle as they were.
C10_StopIdempotent ==
    /\ [](\A c \in Callers :
            (cs[c].op = "stop" /\ cs[c].path = "joined") =>
                /\ cs[c].res = "Ok"
                /\ thr[cs[c].handle].pc = "exited"
                /\ recv_thread # cs[c].handle
                /\ ~running)
    /\ [][\A c \in Callers :
            (cs[c].pc = "idle" /\ cs'[c].op = "stop" /\ recv_thread = 0) =>
                /\ cs'[c].pc = "done"
                /\ cs'[c].res = "Ok"
                /\ UNCHANGED <<running, recv_event, recv_thread, thr, tlock>>]_vars

\* a stop that joined the thread, and a later stop that found no handle
C10_Witness ==
    \E c, b \in Callers :
        /\ cs[c].op = "stop" /\ cs[c].pc = "done" /\ cs[c].path = "joined"
        /\ cs[c].res = "Ok"
        /\ cs[b].op = "stop" /\ cs[b].pc = "done" /\ cs[b].path = "early"
        /\ cs[b].epoch >= 1 /\ cs[b].res = "Ok"
        /\ recv_thread = 0

\* C11 as stated: a caller that was handed a completion fails with
\* IOBufferError carrying the status when the status is not VIRTIO_SND_S_OK,
\* and otherwise returns Ok with the completion's latency, a read having given
\* its callback consumed_len bytes at the transfer's offset.
C11_CompletionResultAsStated ==
    \A c \in Callers :
        (cs[c].pc = "done" /\ cs[c].got # NoMsg) =>
            IF cs[c].got.status # VIRTIO_SND_S_OK
            THEN cs[c].res = "IOBufferError" /\ cs[c].val = cs[c].got.status
            ELSE /\ cs[c].res = "Ok"
                 /\ cs[c].val = cs[c].got.latency
                 /\ cs[c].op = "request" =>
                      /\ cs[c].viewed
                      /\ cs[c].voff = cs[c].offset
                      /\ cs[c].vlen = cs[c].got.consumed_len

\* C11: a caller that was handed a completion fails with IOBufferError
\* carrying the status when the status is not VIRTIO_SND_S_OK; otherwise a
\* write returns Ok with the completion's latency, and a read does so after
\* giving its callback exactly consumed_len bytes at the transfer's own
\* offset, provided offset + consumed_len lies within the area; when it does
\* not, the read fails with VolatileMemoryError and the callback is not run.
C11_CompletionResult ==
    \A c \in Callers :
        (cs[c].pc = "done" /\ cs[c].got # NoMsg) =>
            IF cs[c].got.status # VIRTIO_SND_S_OK
            THEN cs[c].res = "IOBufferError" /\ cs[c].val = cs[c].got.status
                 /\ ~cs[c].viewed
            ELSE IF cs[c].op = "request" /\ cs[c].offset + cs[c].got.consumed_len > QSize
            THEN cs[c].res = "VolatileMemoryError" /\ ~cs[c].viewed
            ELSE /\ cs[c].res = "Ok"
                 /\ cs[c].val = cs[c].got.latency
                 /\ cs[c].op = "request" =>
                      /\ cs[c].viewed
                      /\ cs[c].voff = cs[c].offset
                      /\ cs[c].vlen = cs[c].got.consumed_len

\* a read that returned Ok after the server consumed less than was asked for
C11_Witness ==
    \E c \in Callers :
        /\ cs[c].op = "request" /\ cs[c].pc = "done" /\ cs[c].res = "Ok"
        /\ cs[c].got.xid = cs[c].xid
        /\ cs[c].got.consumed_len < cs[c].size
        /\ cs[c].vlen = cs[c].got.consumed_len
        /\ cs[c].offset > 0

\* facade threads between the write of their request and the read of its reply
InExchange == {c \in Callers : cs[c].pc = "cmd_recv"}

\* C12: command exchanges on the control socket do not interleave: while a
\* facade thread is between the write of its request and the read of the
\* reply, no request is written, and the only read is its own; so every
\* reply a caller reads is the server's answer to that caller's request.
C12_ExchangeAtomic ==
    /\ [](/\ Cardinality({c \in Callers : cs[c].pc \in {"cmd_send", "cmd_recv"}}) <= 1
          /\ Len(creq) + Len(crep) <= 1
          /\ \A c \in Callers :
               (cs[c].op = "cmd" /\ cs[c].pc = "done" /\ cs[c].reply # NoReply) =>
                   cs[c].reply.for = c)
    /\ [][\A c \in InExchange :
            /\ Len(creq') <= Len(creq)
            /\ (crep # <<>> /\ crep' = Tail(crep)) =>
                 /\ cs'[c].pc = "done"
                 /\ cs'[c].reply = Head(crep)
                 /\ Head(crep).for = c]_vars

\* one facade thread waits for its reply while the other waits for the lock
C12_Witness ==
    \E c, b \in Callers :
        /\ cs[c].pc = "cmd_recv" /\ crep # <<>> /\ Head(crep).for = c
        /\ cs[b].pc = "cmd_lock"

\* C13: send_cmd returns Ok exactly when the code of the reply is 0, and
\* otherwise fails with CommandFailed carrying the code as the server sent it.
C13_CommandStatus ==
    \A c \in Callers :
        (cs[c].op = "cmd" /\ cs[c].pc = "done" /\ cs[c].reply # NoReply) =>
            /\ cs[c].res = "Ok" <=> cs[c].reply.code = U32(0, 0)
            /\ cs[c].reply.code # U32(0, 0) =>
                 cs[c].res = "CommandFailed" /\ cs[c].val = cs[c].reply.code

\* a command the server refused with the largest code
C13_Witness ==
    \E c \in Callers :
        /\ cs[c].op = "cmd" /\ cs[c].res = "CommandFailed"
        /\ cs[c].val = U32(65535, 65535)
        /\ cs[c].reply.for = c

\* the events of a sequence
Range(seq) == {seq[i] : i \in 1..Len(seq)}

\* C14: an event the recv thread has read is appended to the queue, and the
\* notifier then signalled, if reporting_events is set when the thread looks
\* at the flags; otherwise it is dropped and neither queue nor notifier
\* changes.  reporting_events is false at first, only get_event_notifier sets
\* it, and nothing clears it, so an event that was dropped is never queued
\* later.
C14_EventReporting ==
    /\ ~reporting_events
    /\ [][/\ reporting_events => reporting_events'
          /\ (~reporting_events /\ reporting_events') =>
                \E c \in Callers : cs[c].pc = "idle" /\ cs'[c].op = "notifier"
          /\ \A t \in Tids :
               /\ (thr[t].pc = "event" /\ thr'[t].pc # "event") =>
                     IF reporting_events
                     THEN /\ events' = Append(events, rcvd)
                          /\ thr'[t].pc = "ev_notify"
                          /\ evlog'.discarded = evlog.discarded
                     ELSE /\ events' = events
                          /\ event_notifier' = event_notifier
                          /\ thr'[t].pc # "ev_notify"
                          /\ rcvd \in evlog'.discarded
               /\ (thr[t].pc = "ev_notify" /\ thr'[t].pc # "ev_notify") =>
                     event_notifier' = event_notifier + 1]_vars
    /\ [](/\ evlog.discarded \cap (Range(evlog.pushed) \cup Range(events)) = {}
          /\ ~reporting_events => (events = <<>> /\ event_notifier = 0)
          /\ event_notifier + Cardinality({t \in Tids : thr[t].pc = "ev_notify"})
                = Len(evlog.pushed))

\* an event was dropped before get_event_notifier was called, and a later
\* one was queued and signalled
C14_Witness ==
    /\ evlog.discarded # {}
    /\ reporting_events
    /\ events # <<>>
    /\ event_notifier > 0
    /\ \A e \in evlog.discarded : \A f \in Range(events) : e < f

\* C15: pop_event removes and returns the oldest queued event, and returns
\* None when the queue is empty; over all interleavings of the recv thread's
\* pushes with pop_event calls, the events come out in the order they were
\* queued, each exactly once.
C15_PopFifo ==
    /\ [](evlog.pushed = evlog.popped \o events)
    /\ [][\A c \in Callers :
            (cs[c].pc = "idle" /\ cs'[c].op = "pop") =>
                IF events = <<>>
                THEN cs'[c].res = "None" /\ events' = events
                ELSE /\ cs'[c].res = "Some"
                     /\ cs'[c].val = Head(events)
                     /\ events' = Tail(events)
                     /\ evlog'.popped = Append(evlog.popped, Head(events))]_vars

\* two events were queued together and both facade threads have popped one
C15_Witness ==
    /\ Len(evlog.popped) = 2
    /\ events = <<>>
    /\ \E c, b \in Callers :
         /\ cs[c].op = "pop" /\ cs[c].val = evlog.popped[1]
         /\ cs[b].op = "pop" /\ cs[b].val = evlog.popped[2]
         /\ c # b

\* a facade thread waiting in await_status with nothing in its channel
Blocked(c) == cs[c].pc = "await" /\ chan[cs[c].xid].buf = <<>>

\* a recv thread has run and none is left: each has returned, or was spawned
\* after running was cleared and returns at its first look at the flag
ReceiverGone ==
    /\ \E t \in Tids : thr[t].pc = "exited"
    /\ \A t \in Tids : \/ thr[t].pc \in {"none", "exited"}
                       \/ thr[t].pc = "top" /\ ~running

\* the recv thread has been stopped: running is cleared and no thread is
\* past its first look at the flag
ReceiverStopped ==
    /\ ~running
    /\ \A t \in Tids : thr[t].pc \in {"none", "exited", "top"}

\* C16: once the recv thread is gone, by a stop or by a failure, a caller
\* blocked on an outstanding transfer is released with BufferStatusSenderLost
\* instead of waiting for ever.
C16_ReleasedWhenGone ==
    \A c \in Callers :
        (ReceiverGone /\ Blocked(c)) ~>
            (cs[c].pc = "done" /\ cs[c].res = "BufferStatusSenderLost")

\* C17 as stated: once the recv thread is stopped, a caller blocked on an
\* outstanding transfer stays blocked for good.
C17_BlocksForeverAsStated ==
    [][\A c \in Callers :
          (ReceiverStopped /\ Blocked(c)) => Blocked(c)']_vars

\* C17: once the recv thread is stopped, a caller blocked on an outstanding
\* transfer stays blocked unless a later transfer of the same direction is
\* registered at the same offset, which releases it with
\* BufferStatusSenderLost; nothing cancels a transfer, a stopped receiver
\* stays stopped, and no step of stop_bg_thread changes a subscribers map or
\* a channel.
C17_BlocksUntilDisplaced ==
    [][/\ \A c \in Callers :
            (ReceiverStopped /\ Blocked(c)) =>
                /\ ReceiverStopped'
                /\ \/ Blocked(c)'
                   \/ /\ cs'[c].pc = "done"
                      /\ cs'[c].res = "BufferStatusSenderLost"
                      /\ cs[c].xid \in clash
       /\ \A c \in Callers :
            (cs'[c].op = "stop" /\ cs'[c] # cs[c]) => UNCHANGED <<subs, chan>>]_vars

\* a stop has joined the recv thread while a caller waits for a completion
\* that the server has already sent
C17_Witness ==
    \E c, b \in Callers :
        /\ cs[b].op = "stop" /\ cs[b].path = "joined"
        /\ ReceiverStopped
        /\ Blocked(c) /\ chan[cs[c].xid].tx
        /\ \E i \in 1..Len(statusq[DirOf(cs[c].op)]) :
             statusq[DirOf(cs[c].op)][i].xid = cs[c].xid

\* C18: a status or event message of the wrong size, or a failed wait, ends
\* the recv thread with that error as its result, and the stop_bg_thread that
\* then joins the thread returns exactly that result.
C18_FaultSurfacedByJoin ==
    /\ [](\A c \in Callers :
            (cs[c].op = "stop" /\ cs[c].path = "joined") =>
                /\ thr[cs[c].handle].pc = "exited"
                /\ cs[c].res = thr[cs[c].handle].res)
    /\ [][/\ \A d \in Dirs :
               (statusq[d] # <<>> /\ statusq'[d] = Tail(statusq[d])
                   /\ ~Head(statusq[d]).size_ok) =>
                   \E t \in Tids : /\ thr[t].pc = "handle"
                                   /\ thr'[t].pc = "exited"
                                   /\ thr'[t].res = "UnexpectedMessageSize"
          /\ (evsock # <<>> /\ evsock' = Tail(evsock) /\ ~Head(evsock).size_ok) =>
                   \E t \in Tids : /\ thr[t].pc = "handle"
                                   /\ thr'[t].pc = "exited"
                                   /\ thr'[t].res = "UnexpectedMessageSize"
          /\ \A t \in Tids :
               /\ (thr[t].pc = "wait" /\ thr'[t].pc = "exited") => thr'[t].res = "WaitError"
               /\ (thr[t].pc = "top" /\ thr'[t].pc = "exited" /\ thr'[t].res = "Ok") => ~running
               /\ thr[t].pc = "exited" => thr'[t] = thr[t]]_vars

\* one stop has returned the size error of a thread and another the error of
\* a thread started later
C18_Witness ==
    \E c, b \in Callers :
        /\ cs[c].op = "stop" /\ cs[c].path = "joined" /\ cs[c].res = "UnexpectedMessageSize"
        /\ cs[b].op = "stop" /\ cs[b].path = "joined"
        /\ cs[b].res \in {"WaitError", "WaitContextCreateError"}

C20_ConfigSizeChecked ==
    /\ conn.recv_size # 16 =>
         /\ conn.pc \in {"size", "failed"}
         /\ conn.pc = "failed" =>
              /\ conn.res = "UnexpectedConfigSize"
              /\ conn.val = conn.recv_size
              /\ conn.taken = 0
    /\ conn.res = "UnexpectedConfigSize" => conn.recv_size # 16

\* a payload one byte short, with the right version and all five descriptors
C20_Witness ==
    /\ conn.pc = "failed" /\ conn.res = "UnexpectedConfigSize"
    /\ conn.recv_size = 15
    /\ conn.version = 1
    /\ conn.fd_count = 5

\* C21: try_new fails with VersionMismatch, carrying the version received,
\* whenever a payload of the right size has a version other than 1, whatever
\* came with it, and only then; no query command has been written to the
\* control socket.
C21_VersionChecked ==
    /\ (conn.recv_size = 16 /\ conn.version # 1) =>
         /\ conn.pc \in {"size", "version", "failed"}
         /\ conn.sent = <<>>
         /\ conn.pc = "failed" =>
              /\ conn.res = "VersionMismatch"
              /\ conn.val = conn.version
    /\ conn.res = "VersionMismatch" => (conn.recv_size = 16 /\ conn.version # 1)

\* a payload of 16 bytes with version 2, five descriptors and tables to ask for
C21_Witness ==
    /\ conn.pc = "failed" /\ conn.res = "VersionMismatch"
    /\ conn.version = 2
    /\ conn.fd_count = 5
    /\ conn.counts = <<1, 1, 1>>

\* C22: try_new fails with UnexpectedNumberOfFileDescriptors, carrying the
\* count received, whenever a payload that passed the size and version tests
\* came with a number of descriptors other than five, fewer or more, and
\* only then; no query command has been written.
C22_DescriptorCountChecked ==
    /\ (conn.recv_size = 16 /\ conn.version = 1 /\ conn.fd_count # 5) =>
         /\ conn.pc \in {"size", "version", "pop", "failed"}
         /\ conn.sent = <<>>
         /\ conn.pc = "failed" =>
              /\ conn.res = "UnexpectedNumberOfFileDescriptors"
              /\ conn.val = conn.fd_count
    /\ conn.res = "UnexpectedNumberOfFileDescriptors" =>
         (conn.recv_size = 16 /\ conn.version = 1 /\ conn.fd_count # 5)

\* C22 as stated: whatever else the handshake carried, a descriptor count
\* other than five ends try_new with UnexpectedNumberOfFileDescriptors.
C22_DescriptorCountAsStated ==
    (conn.fd_count # 5 /\ conn.pc \in {"failed", "done"}) =>
        (conn.pc = "failed" /\ conn.res = "UnexpectedNumberOfFileDescriptors")

\* six descriptors arrived: all five pops succeeded and the test after them
\* refused the one left over
C22_Witness ==
    /\ conn.pc = "failed" /\ conn.res = "UnexpectedNumberOfFileDescriptors"
    /\ conn.fd_count = 6
    /\ conn.taken = 5

\* four descriptors arrived: the fifth pop found the vector empty
C22_WitnessFewer ==
    /\ conn.pc = "failed" /\ conn.res = "UnexpectedNumberOfFileDescriptors"
    /\ conn.fd_count = 4
    /\ conn.taken = 4

\* C23: once the five pops are done on five descriptors, the descriptor that
\* arrived last is rx_shm_file, then tx_shm_file, rx_socket, tx_socket, and
\* the one that arrived first is event_socket; each descriptor has exactly
\* one role, and the roles stay as they are through the queries.
C23_DescriptorOrder ==
    (conn.fd_count = 5 /\ conn.pc \in {"query", "done"}) =>
        /\ conn.role["rx_shm_file"] = 5
        /\ conn.role["tx_shm_file"] = 4
        /\ conn.role["rx_socket"] = 3
        /\ conn.role["tx_socket"] = 2
        /\ conn.role["event_socket"] = 1
        /\ \A fd \in 1..5 : Cardinality({r \in Roles : conn.role[r] = fd}) = 1
        /\ conn.safe_fds = <<>>

\* try_new has returned the client
C23_Witness ==
    /\ conn.pc = "done" /\ conn.res = "Ok"
    /\ conn.role["rx_shm_file"] = 5 /\ conn.role["event_socket"] = 1

\* the id a call in progress was made with is one the client knows
IdKnown(call) ==
    IF call.op = "remap" THEN call.jack_id < config_jacks
                         ELSE call.stream_id < Len(streams)

\* C24: remap_jack with jack_id >= the jack count returns InvalidJackId, and
\* prepare / release / start / stop, set_stream_parameters and both
\* transfers with a stream id outside the stream table return
\* InvalidStreamId, each carrying the id; the call has written nothing to the
\* control socket or to a data socket, and each message written to one of
\* them comes from a call whose id is known.
C24_IdValidatedFirst ==
    /\ [](\A c \in Callers :
            (cs[c].op \in {"remap", "cmd", "set_params", "inject", "request"}
                /\ ~IdKnown(cs[c])) =>
                /\ cs[c].pc = "done"
                /\ cs[c].res = IF cs[c].op = "remap" THEN "InvalidJackId"
                                                     ELSE "InvalidStreamId"
                /\ cs[c].val = IF cs[c].op = "remap" THEN cs[c].jack_id
                                                     ELSE cs[c].stream_id)
    /\ [][/\ \A c \in Callers :
               (cs'[c] # cs[c] /\ cs'[c].pc # "idle" /\ ~IdKnown(cs'[c])) =>
                   (cs[c].pc = "idle" /\ creq' = creq /\ sock' = sock)
          /\ Len(creq') > Len(creq) =>
               /\ IdKnown(cs[creq'[Len(creq')].by])
               /\ cs[creq'[Len(creq')].by].pc = "cmd_send"
          /\ \A d \in Dirs :
               Len(sock'[d]) > Len(sock[d]) =>
                   sock'[d][Len(sock'[d])].stream_id < Len(streams)]_vars

\* one facade thread was refused its jack and the other its stream
C24_Witness ==
    \E c, b \in Callers :
        /\ cs[c].op = "remap" /\ cs[c].res = "InvalidJackId" /\ cs[c].val = 1
        /\ cs[b].op = "set_params" /\ cs[b].res = "InvalidStreamId" /\ cs[b].val = 2

\* the recv thread takes the entry at offset o out of the registry of
\* direction d, on a status message that names o
RemovedByReceiver(d, o) ==
    /\ subs[d][o] # 0 /\ subs'[d][o] = 0
    /\ \E t \in Tids : thr[t].pc = "handle" /\ thr'[t] # thr[t]
    /\ cs' = cs
    /\ statusq[d] # <<>> /\ statusq'[d] = Tail(statusq[d])
    /\ Head(statusq[d]).buffer_offset = o

\* a transfer caller puts its sender into the registry of direction d at
\* offset o
InsertedByCaller(d, o) ==
    \E c \in Callers :
        /\ cs[c].pc = "register" /\ cs'[c].pc # "register"
        /\ DirOf(cs[c].op) = d /\ cs[c].offset = o
        /\ subs'[d][o] = cs[c].xid /\ cs[c].xid # subs[d][o]

\* C25 as stated: the entry of a transfer whose completion has not been
\* delivered is in the registry, and an entry leaves the registry only when
\* the receiver removes it, never through a facade call.
C25_KeyLifecycleAsStated ==
    /\ [](\A c \in Callers :
            (cs[c].pc \in {"send", "unlock", "await"} /\ chan[cs[c].xid].buf = <<>>) =>
                subs[DirOf(cs[c].op)][cs[c].offset] = cs[c].xid)
    /\ [][\A d \in Dirs, o \in Offsets :
            (subs[d][o] # 0 /\ subs'[d][o] # subs[d][o]) => RemovedByReceiver(d, o)]_vars

\* C25: a registry changes only by a transfer caller's insert and by the
\* receiver's removal on a status message with the matching offset.  The
\* entry of a transfer stays from its registration until the receiver
\* removes it, unless a later transfer of the same direction registers at the
\* same offset, which replaces it and drops its sender.  A removed entry is
\* sent exactly one completion (lost only if its caller has returned on a
\* failed send), no channel ever holds more than one, and a completion
\* reaches a channel only in the step that removes its entry.
C25_KeyLifecycle ==
    /\ [](\A c \in Callers :
            (cs[c].pc \in {"send", "unlock", "await"} /\ chan[cs[c].xid].tx) =>
                subs[DirOf(cs[c].op)][cs[c].offset] = cs[c].xid)
    /\ [](\A k \in Xids : Len(chan[k].buf) <= 1)
    /\ [][/\ \A d \in Dirs, o \in Offsets :
               subs'[d][o] # subs[d][o] =>
                   \/ /\ RemovedByReceiver(d, o)
                      /\ LET k == subs[d][o]
                         IN /\ chan[k].tx /\ ~chan'[k].tx
                            /\ chan[k].buf = <<>>
                            /\ Len(chan'[k].buf) = IF chan[k].rx THEN 1 ELSE 0
                   \/ /\ InsertedByCaller(d, o)
                      /\ subs[d][o] # 0 =>
                           /\ ~chan'[subs[d][o]].tx
                           /\ chan'[subs[d][o]].buf = chan[subs[d][o]].buf
          /\ \A k \in Xids :
               chan'[k].buf # chan[k].buf /\ chan'[k].buf # <<>> =>
                   \E d \in Dirs, o \in Offsets : subs[d][o] = k /\ RemovedByReceiver(d, o)
         ]_vars

\* a transfer has consumed its completion after the receiver removed its
\* entry, and another was replaced in the registry by a later transfer
C25_Witness ==
    /\ \E c \in Callers :
         /\ cs[c].pc = "done" /\ cs[c].res = "Ok" /\ cs[c].xid \in everReg["tx"]
         /\ ~chan[cs[c].xid].rx
    /\ clash # {}

\* the locks of the client that a holds: the queue and subscriber map of each
\* direction, the thread handle and the control socket.  (The guards of
\* recv_thread_state and of events live inside one step of the model.)
Held(a) ==
    {<<"queue", d>> : d \in {e \in Dirs : qlock[e] = a}}
      \cup {<<"subscribers", d>> : d \in {e \in Dirs : slock[e] = a}}
      \cup (IF tlock = a THEN {<<"recv_thread", "">>} ELSE {})
      \cup (IF clock = a THEN {<<"control_socket", "">>} ELSE {})

\* C26 as stated: outside start_bg_thread no facade call holds two of the
\* client's locks at once.
C26_OneLockAsStated ==
    \A c \in Callers : cs[c].op # "start" => Cardinality(Held(c)) <= 1

\* C26: a facade call holds at most one of the client's locks at a time,
\* except a transfer, which takes the subscriber map's lock of its direction
\* for the insert statement while it holds the queue lock of that direction.
\* start_bg_thread takes its locks one at a time, and running is written with
\* no other lock held.
C26_OneLock ==
    /\ [](\A c \in Callers :
            \/ Cardinality(Held(c)) <= 1
            \/ /\ cs[c].op \in {"inject", "request"}
               /\ cs[c].pc \in {"register", "send"}
               /\ Held(c) = {<<"queue", DirOf(cs[c].op)>>,
                             <<"subscribers", DirOf(cs[c].op)>>})
    /\ [](\A c \in Callers, d \in Dirs :
            slock[d] = c => (qlock[d] = c /\ cs[c].pc \in {"register", "send"}))
    /\ [](\A c \in Callers : cs[c].op = "start" => Held(c) = {})
    /\ [][\A c \in Callers :
            (cs[c].pc \in {"clone_tx", "clone_rx", "spawn", "clear_running", "take"}
                /\ cs'[c] # cs[c]) => Held(c) = {}]_vars

\* one facade thread is inside insert with the queue lock held while the
\* other is inside start_bg_thread
C26_Witness ==
    \E c, b \in Callers :
        /\ Held(c) = {<<"queue", "tx">>, <<"subscribers", "tx">>}
        /\ cs[c].pc = "send"
        /\ cs[b].op = "start" /\ cs[b].pc = "spawn"

\* C27: a facade thread waiting in await_status holds none of the client's
\* locks; so while every other facade thread is waiting there or outside a
\* transfer, a thread at allocate_buffer gets the queue lock, one at the
\* insert gets the subscriber map unless the recv thread is inside remove,
\* and the recv thread gets the subscriber map for a status it has to handle.
C27_BlockedHoldsNothing ==
    /\ \A c \in Callers : cs[c].pc = "await" => Held(c) = {}
    /\ \A b \in Callers :
         (\A c \in Callers \ {b} : cs[c].pc \in {"await", "idle", "done"}) =>
             /\ cs[b].pc = "alloc" => ENABLED Alloc(b)
             /\ (cs[b].pc = "register" /\ slock[DirOf(cs[b].op)] # b
                    /\ \A t \in Tids : ThrFree(t)) => ENABLED RegisterLock(b)
             /\ cs[b].pc = "send" => ENABLED (RegisterUnlock(b) \/ SendUnlocked(b))
    /\ \A t \in Tids, d \in Dirs :
         (/\ \A c \in Callers : cs[c].pc \in {"await", "idle", "done"}
          /\ thr[t].pc = "handle" /\ TokenOf(d) \in thr[t].pending
          /\ statusq[d] # <<>> /\ ThrFree(t)) => ENABLED ThrLockSubs(t, d)

\* one facade thread waits for the completion of its write while the other
\* is inside the block of a later write, at the insert
C27_Witness ==
    \E c, b \in Callers :
        /\ Blocked(c) /\ cs[c].op = "inject"
        /\ cs[b].op = "inject" /\ cs[b].pc = "register" /\ slock["tx"] = b

\* everything that can hold or want a lock: the facade threads and the recv
\* threads
Actors == Callers \cup {ThrName(t) : t \in Tids}

\* the locks a is about to take.  A recv thread with several status messages
\* to handle, and no guard alive, is taken to want each of their subscriber maps
Wants(a) ==
    IF a \in Callers
    THEN CASE cs[a].pc = "alloc" -> {<<"queue", DirOf(cs[a].op)>>}
           [] cs[a].pc = "register" /\ slock[DirOf(cs[a].op)] # a ->
                  {<<"subscribers", DirOf(cs[a].op)>>}
           [] cs[a].pc = "view" -> {<<"queue", "rx">>}
           [] cs[a].pc = "clone_tx" -> {<<"queue", "tx">>}
           [] cs[a].pc = "clone_rx" -> {<<"queue", "rx">>}
           [] cs[a].pc \in {"spawn", "take"} -> {<<"recv_thread", "">>}
           [] cs[a].pc = "cmd_lock" -> {<<"control_socket", "">>}
           [] OTHER -> {}
    ELSE {<<"subscribers", d>> : d \in
            {e \in Dirs : \E t \in Tids :
                /\ ThrName(t) = a /\ thr[t].pc = "handle" /\ ThrFree(t)
                /\ TokenOf(e) \in thr[t].pending
                /\ statusq[e] # <<>> /\ slock[e] # a}}

\* a waits for b: b holds a lock a is about to take, or a is inside join
\* and b is the recv thread it joins
WaitsFor(a, b) ==
    \/ Wants(a) \cap Held(b) # {}
    \/ /\ a \in Callers /\ cs[a].pc = "join"
       /\ b = ThrName(cs[a].handle) /\ thr[cs[a].handle].pc # "exited"

\* C28: no set of threads is such that each waits for another of the set
\* (no deadlock among the locks, the join included); a thread takes a queue
\* lock, the thread handle or the control socket only while it holds nothing,
\* and a subscriber map only while it holds nothing but the queue lock of the
\* same direction (queue before registry); a recv thread holds at most one
\* lock at a time, and only a subscriber map.
C28_NoDeadlock ==
    /\ [](LET waiting == {p \in Actors \X Actors : WaitsFor(p[1], p[2])}
          IN \A S \in SUBSET Actors :
               S # {} => \E a \in S : \A b \in S : <<a, b>> \notin waiting)
    /\ [](\A t \in Tids :
            /\ Cardinality(Held(ThrName(t))) <= 1
            /\ Held(ThrName(t)) \subseteq {<<"subscribers", d>> : d \in Dirs})
    /\ [][\A a \in Actors :
            /\ \A l \in Held(a)' \ Held(a) :
                 IF l[1] = "subscribers"
                 THEN Held(a) \subseteq {<<"queue", l[2]>>}
                 ELSE Held(a) = {}
            /\ \A l \in Held(a)' : l[1] = "subscribers" /\ a \in Callers =>
                 <<"queue", l[2]>> \in Held(a)']_vars

\* one facade thread holds the tx queue lock and waits at the insert for the
\* subscriber map, which the recv thread holds to complete the write the
\* other facade thread waits for
C28_Witness ==
    \E c, b \in Callers, t \in Tids :
        /\ cs[c].pc = "register" /\ qlock["tx"] = c /\ slock["tx"] = ThrName(t)
        /\ WaitsFor(c, ThrName(t))
        /\ Blocked(b) /\ cs[b].op = "inject"

\* C29: a write goes allocate (with the fill callback), insert, send, end of
\* the block, await, in this order; its message is sent after the callback
\* has returned and the sender is registered; and from its allocation to its
\* send no other write moves the tx cursor or writes to the tx data socket.
C29_WriteBlockAtomic ==
    /\ [](\A c \in Callers :
            (cs[c].op = "inject" /\ cs[c].xid \in everSent["tx"]) =>
                (cs[c].filled /\ cs[c].xid \in everReg["tx"]))
    /\ [][\A c \in Callers :
            /\ (cs[c].op = "inject" /\ cs'[c].pc # cs[c].pc /\ cs'[c].pc # "done") =>
                 <<cs[c].pc, cs'[c].pc>> \in
                     {<<"idle", "alloc">>, <<"alloc", "register">>,
                      <<"register", "send">>, <<"send", "unlock">>,
                      <<"unlock", "await">>, <<"done", "idle">>}
            /\ (cs[c].op = "inject" /\ cs[c].pc \in {"register", "send"}) =>
                 /\ q'["tx"] = q["tx"]
                 /\ Len(sock'["tx"]) > Len(sock["tx"]) =>
                      /\ cs[c].pc = "send" /\ cs'[c].pc = "unlock"
                      /\ sock'["tx"] = Append(sock["tx"],
                            IoTransferMsg(cs[c].stream_id, cs[c].offset, cs[c].size,
                                          cs[c].xid))
                 /\ \A b \in Callers \ {c} :
                      cs[b].op = "inject" =>
                          (cs'[b].pc = cs[b].pc \/ cs[b].pc \notin {"alloc", "send"})]_vars

\* one write is between its allocation and its send while another write
\* stands at allocate_buffer
C29_Witness ==
    \E c, b \in Callers :
        /\ cs[c].op = "inject" /\ cs[c].pc = "send" /\ cs[c].filled
        /\ cs[b].op = "inject" /\ cs[b].pc = "alloc"

\* C30: once stop_bg_thread has cleared running and written recv_event, the
\* recv thread, if it is alive, ends, and the stop call returns, with no
\* server in the system; the thread leaves its loop only at the loop head,
\* having read running = false, and a stop that joins it returns its result.
C30_StopTerminates ==
    /\ \A c \in Callers :
          (cs[c].op = "stop" /\ cs[c].pc = "take") ~> (cs[c].pc = "done")
    /\ \A t \in Tids :
          (t \in LiveThreads /\ \E c \in Callers : cs[c].op = "stop" /\ cs[c].pc = "take")
              ~> (thr[t].pc = "exited")
    /\ [][\A t \in Tids :
            (thr[t].pc # "exited" /\ thr'[t].pc = "exited") =>
                (thr[t].pc = "top" /\ ~running /\ thr'[t].res = "Ok")]_vars
    /\ [](\A c \in Callers :
            (cs[c].op = "stop" /\ cs[c].pc = "done" /\ cs[c].path = "joined") =>
                (thr[cs[c].handle].pc = "exited" /\ cs[c].res = "Ok"))

\* a stop has joined the recv thread, which had gone to wait before running
\* was cleared and was woken by the write to recv_event, which it consumed
C30_Witness ==
    \E c \in Callers :
        /\ cs[c].op = "stop" /\ cs[c].pc = "done" /\ cs[c].path = "joined"
        /\ thr[cs[c].handle].pc = "exited" /\ thr[cs[c].handle].res = "Ok"
        /\ ~running /\ recv_event = 0

\* running and reporting_events change only in the one statement of
\* stop_bg_thread and of get_event_notifier that holds the state lock, one
\* field at a time, and never in a step of the recv thread
FlagsMutatedUnderLock ==
    [][(running' # running \/ reporting_events' # reporting_events) =>
          /\ thr' = thr
          /\ \E c \in Callers :
               \/ /\ cs[c].pc = "clear_running" /\ cs'[c].pc = "notify"
                  /\ ~running' /\ reporting_events' = reporting_events
               \/ /\ cs[c].pc = "idle" /\ cs'[c].op = "notifier"
                  /\ reporting_events' /\ running' = running]_vars

\* C31 as stated: the flags are mutated only under the state lock and the
\* recv thread reads them once in each iteration of its loop.
C31_ReadOncePerCycleAsStated ==
    /\ FlagsMutatedUnderLock
    /\ [](\A t \in Tids : thr[t].reads <= 1)

\* C31: the flags are mutated only under the state lock; the recv thread
\* copies them at the head of each iteration, where running decides whether
\* it goes on, and once more for the event message of the iteration, where
\* reporting_events as it is then decides whether the event is queued.
C31_FlagReads ==
    /\ FlagsMutatedUnderLock
    /\ [](\A t \in Tids : thr[t].reads <= 2)
    /\ [][\A t \in Tids :
            /\ thr'[t].reads # thr[t].reads =>
                 \/ thr[t].pc = "top" /\ thr'[t].reads = IF running THEN 1 ELSE 0
                 \/ thr[t].pc = "event" /\ thr'[t].reads = thr[t].reads + 1
                 \/ thr[t].pc = "none" \/ thr'[t].pc = "exited"
            /\ (thr[t].pc = "top" /\ thr'[t].pc # "top") =>
                 /\ (thr'[t].pc = "wait") = running
                 /\ running => (thr'[t].reads = 1 /\ thr'[t].state_cpy = ThreadFlags)
            /\ (thr[t].pc = "event" /\ thr'[t].pc # "event") =>
                 /\ thr'[t].reads = 2
                 /\ (thr'[t].pc = "ev_notify") = reporting_events]_vars

\* the recv thread has queued an event in an iteration whose loop head saw
\* reporting_events false: it read the flags a second time
C31_Witness ==
    \E t \in Tids :
        /\ thr[t].pc = "ev_notify" /\ thr[t].reads = 2
        /\ ~thr[t].state_cpy.reporting_events /\ reporting_events

\* C32: allocate_buffer decides on the cursor and the size alone, whatever
\* ranges are outstanding: an allocation that fits the area succeeds at the
\* offset the cursor gives, so a transfer can be handed bytes that an
\* uncompleted transfer of the same direction still holds.
C32_NoExtentTracking ==
    [][\A c \in Callers :
          (cs[c].pc = "alloc" /\ cs'[c].pc # "alloc") =>
              LET d == DirOf(cs[c].op)
                  a == allocate_buffer(q[d].next, cs[c].size)
              IN /\ (cs'[c].res = "OutOfSpace") = (cs[c].size > QSize)
                 /\ cs[c].size <= QSize =>
                      /\ cs'[c].offset = a.offset
                      /\ q'[d].next = a.next]_vars

\* two writes, neither completed, hold ranges with a byte in common: the
\* second was allocated while the first waits for its status
C32_Witness ==
    \E c, b \in Callers :
        /\ c # b /\ cs[c].op = "inject" /\ cs[b].op = "inject"
        /\ Blocked(c) /\ Outstanding(b)
        /\ cs[c].res = "none" /\ cs[b].res = "none"
        /\ Overlap(cs[c].offset, cs[c].size, cs[b].offset, cs[b].size)

\* C33: a slice of the shared area is handed to a callback only for a range
\* inside the area: the range a read callback saw and the range a write
\* callback filled end at or before the capacity, and a read whose completion
\* has the success status and a consumed_len beyond capacity - offset returns
\* VolatileMemoryError without having run its callback.
C33_ViewInsideRegion ==
    \A c \in Callers :
        /\ cs[c].viewed => cs[c].voff + cs[c].vlen <= QSize
        /\ cs[c].filled => cs[c].offset + cs[c].size <= QSize
        /\ (/\ cs[c].op = "request" /\ cs[c].pc = "done" /\ cs[c].got # NoMsg
            /\ cs[c].got.status = VIRTIO_SND_S_OK
            /\ cs[c].got.consumed_len > QSize - cs[c].offset) =>
                (cs[c].res = "VolatileMemoryError" /\ ~cs[c].viewed)

\* a read of one byte at offset 1 was answered with success and a
\* consumed_len that runs past the end of the area, and has failed
C33_Witness ==
    \E c \in Callers :
        /\ cs[c].op = "request" /\ cs[c].pc = "done"
        /\ cs[c].got.xid = cs[c].xid /\ cs[c].got.status = VIRTIO_SND_S_OK
        /\ cs[c].offset > 0 /\ cs[c].size <= QSize - cs[c].offset
        /\ cs[c].got.consumed_len > QSize - cs[c].offset
        /\ cs[c].res = "VolatileMemoryError" /\ ~cs[c].viewed

\* C34 as stated: no recv thread exists after try_new, a facade thread
\* inside a transfer call has brought one into existence, a stop that joined
\* has ended the thread and a dropped client has none left.
C34_LazyOnTransferAsStated ==
    /\ recv_thread = 0 /\ \A t \in Tids : thr[t].pc = "none"
    /\ [](\A c \in Callers :
            (cs[c].op \in {"inject", "request"} /\ cs[c].pc = "await") =>
                \E t \in Tids : thr[t].pc # "none")
    /\ [](\A c \in Callers :
            /\ (cs[c].op = "stop" /\ cs[c].pc = "done" /\ cs[c].path = "joined") =>
                 thr[cs[c].handle].pc = "exited"
            /\ (cs[c].op = "drop" /\ cs[c].pc \in {"done", "gone"}) =>
                 (recv_thread = 0 /\ LiveThreads = {}))

\* C34: no recv thread exists after try_new; one is created only by the
\* spawn step of a start_bg_thread that finds no handle, never by a step of a
\* transfer call, and a transfer whose sender is in place while no thread
\* was ever started stays in await_status; a stop that joined has ended the
\* thread and a dropped client has none left.
C34_CreatedByStart ==
    /\ recv_thread = 0 /\ \A t \in Tids : thr[t].pc = "none"
    /\ [][/\ \A t \in Tids :
               (thr[t].pc = "none" /\ thr'[t].pc # "none") =>
                   /\ recv_thread = 0 /\ recv_thread' = t
                   /\ \E c \in Callers :
                        /\ cs[c].op = "start" /\ cs[c].pc = "spawn"
                        /\ cs'[c].pc = "done" /\ cs'[c].path = "spawned"
          /\ \A c \in Callers :
               (cs[c].op \in {"inject", "request"} /\ cs'[c] # cs[c]) =>
                   (thr' = thr /\ recv_thread' = recv_thread)
          /\ \A c \in Callers :
               (/\ cs[c].pc = "await" /\ chan[cs[c].xid].tx
                /\ \A t \in Tids : thr[t].pc = "none") => cs'[c] = cs[c]]_vars
    /\ [](\A c \in Callers :
            /\ (cs[c].op = "stop" /\ cs[c].pc = "done" /\ cs[c].path = "joined") =>
                 thr[cs[c].handle].pc = "exited"
            /\ (cs[c].op = "drop" /\ cs[c].pc \in {"done", "gone"}) =>
                 (recv_thread = 0 /\ LiveThreads = {}))

\* a write sits in await_status, its message answered by the server, and no
\* recv thread has been created yet
C34_Witness ==
    \E c \in Callers :
        /\ cs[c].op = "inject" /\ Blocked(c) /\ chan[cs[c].xid].tx
        /\ \E i \in 1..Len(statusq["tx"]) : statusq["tx"][i].xid = cs[c].xid
        /\ recv_thread = 0 /\ \A t \in Tids : thr[t].pc = "none"

\* C35: running is true after try_new and only goes from true to false, in
\* the statement of a stop_bg_thread that found a handle; so a recv thread
\* that comes to its first loop check with running false returns Ok there,
\* and that step reads no socket, touches no subscriber map and queues no
\* event.
C35_RunningOnlyCleared ==
    /\ running = TRUE
    /\ [][/\ ~running => ~running'
          /\ (running /\ ~running') =>
                \E c \in Callers :
                    /\ cs[c].op \in {"stop", "drop"}
                    /\ cs[c].pc = "clear_running" /\ cs'[c].pc = "notify"
          /\ \A t \in Tids :
                (~running /\ thr[t].pc = "top" /\ thr[t].res = "new"
                    /\ thr'[t] # thr[t]) =>
                    /\ thr'[t].pc = "exited" /\ thr'[t].res = "Ok"
                    /\ UNCHANGED <<statusq, subs, chan, evsock, events, recv_event>>]_vars
    /\ [](\A t \in Tids :
            (~running /\ thr[t].res = "new") => thr[t].pc = "top")

\* a stop has joined the first recv thread; a start after it has spawned a
\* second one, which has returned Ok although a status message for a blocked
\* caller waits on the tx data socket
C35_Witness ==
    \E c, b \in Callers, t \in Tids :
        /\ cs[c].op = "stop" /\ cs[c].pc = "done" /\ cs[c].path = "joined"
        /\ cs[c].handle # t /\ recv_thread = t
        /\ thr[t].pc = "exited" /\ thr[t].res = "Ok" /\ ~running
        /\ cs[b].op = "inject" /\ Blocked(b)
        /\ \E i \in 1..Len(statusq["tx"]) : statusq["tx"][i].xid = cs[b].xid

\* C36: a stop_bg_thread that finds no handle returns Ok in that step and
\* leaves running, recv_event, both subscriber maps, the channels and the
\* event queue as they were; so as long as no thread was ever spawned
\* running is true and recv_event is zero, and a thread that comes to its
\* first loop check with running true goes on to wait().
C36_StopWithoutHandle ==
    /\ [][\A c \in Callers :
            (cs[c].pc = "idle" /\ cs'[c].op = "stop" /\ recv_thread = 0) =>
                /\ cs'[c].pc = "done" /\ cs'[c].res = "Ok" /\ cs'[c].path = "early"
                /\ UNCHANGED <<running, recv_event, subs, chan, events,
                               event_notifier, reporting_events, thr>>]_vars
    /\ [](Spawned = 0 => (running /\ recv_event = 0))
    /\ [][\A t \in Tids :
            (running /\ thr[t].pc = "top" /\ thr[t].res = "new" /\ thr'[t] # thr[t]) =>
                (thr'[t].pc \in {"wait", "exited"} /\
                 (thr'[t].pc = "exited" => thr'[t].res # "Ok"))]_vars

\* a stop_bg_thread called before any thread was spawned has returned Ok,
\* and the thread a start_bg_thread spawned after it has passed its first
\* loop check and waits
C36_Witness ==
    \E c \in Callers, t \in Tids :
        /\ cs[c].op = "stop" /\ cs[c].pc = "done" /\ cs[c].path = "early"
        /\ cs[c].res = "Ok" /\ cs[c].epoch = 0
        /\ recv_thread = t /\ thr[t].pc = "wait" /\ running

\* C37: when the send of the transfer message fails, the call returns
\* ServerIOError in that step and undoes nothing: no message is put on the
\* data socket, the subscriber maps are left as they are, so the sender the
\* call inserted for the offset stays in the map with its sending end alive,
\* and the cursor still stands behind the allocated range.
C37_SendFailureKeepsState ==
    [][\A c \in Callers :
          (cs[c].pc = "send" /\ cs'[c].pc = "done") =>
              LET d == DirOf(cs[c].op)
              IN /\ cs'[c].res = "ServerIOError"
                 /\ UNCHANGED <<sock, subs, q>>
                 /\ (subs[d][cs[c].offset] = cs[c].xid /\ chan[cs[c].xid].tx) =>
                      (subs'[d][cs[c].offset] = cs[c].xid /\ chan'[cs[c].xid].tx)
                 /\ q'[d].next = allocate_buffer(cs[c].pre, cs[c].size).next
                 /\ cs[c].xid \notin everSent'[d]]_vars

\* a write of one byte has failed at its send: its sender is in the map and
\* the cursor has moved on by one
C37_Witness ==
    \E c \in Callers :
        /\ cs[c].op = "inject" /\ cs[c].pc = "done" /\ cs[c].res = "ServerIOError"
        /\ cs[c].size > 0
        /\ subs["tx"][cs[c].offset] = cs[c].xid /\ chan[cs[c].xid].tx
        /\ q["tx"].next = cs[c].offset + cs[c].size
        /\ q["tx"].next # cs[c].pre

\* C38: a subscriber map has one sender per offset.  An insert at an offset
\* whose entry belongs to an earlier transfer still waiting in await_status
\* puts the new sender in its place and drops the old one with nothing
\* buffered; a waiting caller whose sender is gone and whose channel is empty
\* can only return BufferStatusSenderLost, without a completion; and a status
\* message handled for an offset goes to the channel of the entry that is in
\* the map then, and changes no other channel.
C38_OneWaiterPerOffset ==
    /\ [](\A c \in Callers :
            (/\ cs[c].pc = "await" /\ chan[cs[c].xid].buf = <<>>
             /\ subs[DirOf(cs[c].op)][cs[c].offset] # cs[c].xid) => ~chan[cs[c].xid].tx)
    /\ [](\A d \in Dirs, o \in Offsets : subs[d][o] # 0 => chan[subs[d][o]].tx)
    /\ [][/\ \A b, c \in Callers :
               (/\ cs[b].pc = "register" /\ cs'[b].pc # "register"
                /\ cs[c].pc = "await" /\ DirOf(cs[c].op) = DirOf(cs[b].op)
                /\ subs[DirOf(cs[b].op)][cs[b].offset] = cs[c].xid) =>
                    /\ subs'[DirOf(cs[b].op)][cs[b].offset] = cs[b].xid
                    /\ chan'[cs[b].xid].tx
                    /\ ~chan'[cs[c].xid].tx /\ chan'[cs[c].xid].buf = <<>>
          /\ \A c \in Callers :
               (/\ cs[c].pc = "await" /\ cs'[c].pc # "await"
                /\ ~chan[cs[c].xid].tx /\ chan[cs[c].xid].buf = <<>>) =>
                    /\ cs'[c].pc = "done" /\ cs'[c].res = "BufferStatusSenderLost"
                    /\ cs'[c].got = NoMsg
          /\ \A d \in Dirs :
               (/\ statusq[d] # <<>> /\ statusq'[d] = Tail(statusq[d])
                /\ Head(statusq[d]).size_ok) =>
                    LET k == subs[d][Head(statusq[d]).buffer_offset]
                    IN /\ \A j \in Xids \ {k} : chan'[j] = chan[j]
                       /\ (k # 0 /\ chan[k].rx) =>
                            /\ Len(chan'[k].buf) = 1
                            /\ chan'[k].buf[1].xid = Head(statusq[d]).xid]_vars

\* two writes shared offset 0: the earlier caller has returned
\* BufferStatusSenderLost, and the later one was handed the status the
\* server sent in answer to the earlier write
C38_Witness ==
    \E c, b \in Callers :
        /\ cs[c].op = "inject" /\ cs[b].op = "inject" /\ cs[c].offset = cs[b].offset
        /\ cs[c].xid # 0 /\ cs[c].xid < cs[b].xid
        /\ cs[c].pc = "done" /\ cs[c].res = "BufferStatusSenderLost"
        /\ cs[b].got.xid = cs[c].xid

\* C39: a status message taken from the data socket of one direction
\* removes from and sends through the subscriber map of that direction only:
\* the step leaves the other direction's map, socket and channels and both
\* cursors as they were, and the completion a caller receives answers a
\* message that was sent on the socket of the caller's own direction.
C39_DirectionsIsolated ==
    /\ [](\A c \in Callers :
            cs[c].got # NoMsg => cs[c].got.xid \in everSent[DirOf(cs[c].op)])
    /\ [](\A d \in Dirs : \A i \in 1..Len(statusq[d]) : statusq[d][i].xid \in everSent[d])
    /\ [][\A d \in Dirs :
            (statusq[d] # <<>> /\ statusq'[d] = Tail(statusq[d])) =>
                \A e \in Dirs \ {d} :
                    /\ subs'[e] = subs[e] /\ statusq'[e] = statusq[e]
                    /\ sock' = sock /\ q' = q
                    /\ \A k \in everReg[e] : chan'[k] = chan[k]]_vars

\* a read and a write were outstanding at offset 0 at the same time: the
\* write has been completed by its own status, and the read, registered
\* before it, still has its entry and waits
C39_Witness ==
    \E c, b \in Callers :
        /\ cs[c].op = "inject" /\ cs[c].got.xid = cs[c].xid /\ cs[c].res = "Ok"
        /\ cs[b].op = "request" /\ Blocked(b) /\ cs[b].xid < cs[c].xid
        /\ cs[b].offset = cs[c].offset
        /\ cs[b].xid \in everSent["rx"]
        /\ subs["rx"][cs[b].offset] = cs[b].xid

====
